---- MODULE Spec2Model ----
(***************************************************************************)
(* Slotted-page codec of toydb (tools/slot_page.c) as a state machine.     *)
(*                                                                         *)
(* One page buffer is modelled.  The header fields are the fields of       *)
(* SP_PageHeader, the slot directory is the array of SP_SlotEntry that     *)
(* SP_SLOT(page,idx) addresses for idx < slotCount, and bytes is the page  *)
(* buffer as the record heap sees it (memcpy / memmove / pageBuf+offset).  *)
(* The directory and the heap share one buffer in the C code; the model    *)
(* keeps them apart, which is faithful exactly as long as the directory    *)
(* and the heap do not overlap (checked below as C3 and C2).               *)
(***************************************************************************)
EXTENDS Integers, Sequences, FiniteSets, TLC

\* ---------------------------------------------------------------- bounds
SmallPageSize == 24      \* page size of the exhaustively explored page
MaxLen == 3              \* largest record length offered to insert (small page)
MaxOps == 5              \* insert/delete calls per run (small page)
MaxScanOps == 4          \* insert/delete calls per run when scans are explored
MaxScenarioOps == 4      \* insert calls per run on the 4096-byte page
MaxCount == 2            \* largest value a statistics counter is driven to
MaxPages == 2            \* largest --pages of the mixed driver
MaxMixOps == 3           \* largest --ops of the mixed driver
MaxFaults == 1           \* PF calls per run that fail for an outside reason
MaxRecs == 4             \* largest number of lines of the loader's data file
MaxStep == 3             \* largest --delete-step of the loader
MaxBigRecs == 2          \* lines of the data file loaded into 4096-byte pages
MaxKeys == 2             \* largest number of records of the index comparator
MaxQueries == 2          \* largest --queries of the index comparator
PoolCapacity == 2        \* frames of the buffer pool
PoolPages == 3           \* pages offered to the buffer pool
MaxOrderRecs == 3        \* records of the comparator's orderings
MaxRoll == 2             \* roll numbers of the comparator's dataset
MaxWrites == 2           \* writes of the writer over the pool
MaxValue == 2            \* values the writer stores
MaxClientOps == 5        \* calls of a caller of the PF layer
MaxScanPages == 6        \* pages of the repeated sequential scan
MaxPins == 2             \* largest pin count a frame is driven to

\* ------------------------------------------------------ program constants
ScenarioPageSize == 4096
ScenarioRecords == 1000  \* records of the delete-step scenario
ScenarioStep == 7        \* its delete step (the default of --delete-step)
LineSize == 4096         \* char line[4096] of the loader
HeaderSize == 8          \* sizeof(SP_PageHeader): four shorts
SlotSize == 4            \* sizeof(SP_SlotEntry): two shorts
SP_OK == 0
SP_ERR_NOSPACE == -1
SP_ERR_INVALID_SLOT == -2
SP_ERR_EMPTY == -3
SP_INVALID_SLOT == -1

VARIABLES
    pageSize,   \* PF_PAGE_SIZE of the build
    page,       \* the page buffer: header, slot directory, bytes
    cursor,     \* the caller's scan cursor (short cursor)
    mode,       \* "idle" | "scan" | "done": position of the scanning caller
    returned,   \* slot ids the running scan has returned so far
    liveAtStart,\* slot ids that were live when the running scan started
    expected,   \* per slot id: the bytes last stored there and not deleted
    deleted,    \* slot ids deleted and not yet handed out again
    reuse,      \* monitor of the sequence insert; delete of that slot;
                \* insert of the same length (stages 1, 2, 3)
    last,       \* summary of the last call
    nops,       \* number of insert/delete calls made so far
    PFstats,    \* static PF_Stats PFstats: the statistics registry
    pf,         \* the paged file a harness works on, as the PF layer sees it
    drv,        \* a harness run: program, position, exit status, monitors
    loc,        \* the local variables of the running harness
    pool        \* the buffer pool: frames in usage order, policy, last call

\* the state of the slotted-page callers
codecVars == <<pageSize, page, cursor, mode, returned, liveAtStart, expected,
               deleted, reuse, last, nops>>

\* the state of the PF layer and of the harnesses
extVars == <<PFstats, pf, drv, loc, pool>>

\* the variables a harness run leaves alone
idleVars == <<codecVars, pool>>

vars == <<pageSize, page, cursor, mode, returned, liveAtStart, expected,
          deleted, reuse, last, nops, PFstats, pf, drv, loc, pool>>

PF_PAGE_SIZE == pageSize

\* short arithmetic: a value stored in a short wraps modulo 2^16
ToShort(x) == ((x + 32768) % 65536) - 32768

\* comparison of a short with a sizeof value: the short is converted to
\* an unsigned type, so a negative value compares as a huge one
ULt(a, b) == a >= 0 /\ a < b

SP_MAX_SLOTS == (PF_PAGE_SIZE - HeaderSize) \div SlotSize

\* ------------------------------------------------------------- the codec

\* the record bytes the caller passes: length bytes (unsigned char values),
\* distinct per position and per call
DataOf(tag, length) == [i \in 1..length |-> (16 * tag + i) % 256]

\* mutant of MemCopy: the last byte of the record is not copied
MemCopy_Short(bytes, dest, data, length) ==
    [k \in DOMAIN bytes |->
        IF k >= dest /\ k < dest + length - 1 THEN data[k - dest + 1]
        ELSE bytes[k]]

\* memcpy(pageBuf + dest, data, length)
MemCopy(bytes, dest, data, length) ==
    [k \in DOMAIN bytes |->
        IF k >= dest /\ k < dest + length THEN data[k - dest + 1] ELSE bytes[k]]

\* memmove(pageBuf + dst, pageBuf + src, n)
MemMove(bytes, dst, src, n) ==
    [k \in DOMAIN bytes |->
        IF k >= dst /\ k < dst + n THEN bytes[src + (k - dst)] ELSE bytes[k]]

\* the n bytes at pageBuf + offset, as the caller of SP_GetRecord reads them
BytesAt(pg, offset, n) == [i \in 1..n |-> pg.bytes[offset + i - 1]]

SP_InitPage ==
    [slotCount    |-> 0,
     freeListHead |-> SP_INVALID_SLOT,
     freePtr      |-> ToShort(PF_PAGE_SIZE),
     attrLength   |-> 0,
     slot         |-> [i \in {} |-> [offset |-> 0, length |-> 0]],
     bytes        |-> [k \in 0..(PF_PAGE_SIZE - 1) |-> 0]]

\* mutant of SP_PageFreeSpace: the heap is measured instead of the gap
SP_PageFreeSpace_Heap(pg) ==
    LET slotBytes == pg.slotCount * SlotSize
        used      == HeaderSize + slotBytes
    IN  (PF_PAGE_SIZE - pg.freePtr) - used

SP_PageFreeSpace(pg) ==
    LET slotBytes == pg.slotCount * SlotSize
        used      == HeaderSize + slotBytes
    IN  pg.freePtr - used

RECURSIVE UsedFrom(_, _)
UsedFrom(pg, i) ==
    IF i >= pg.slotCount THEN 0
    ELSE (IF pg.slot[i].length > 0 THEN pg.slot[i].length ELSE 0)
         + UsedFrom(pg, i + 1)

SP_PageUsedBytes(pg) == UsedFrom(pg, 0)

\* mutant of SP_ReserveSlot: the chain head is handed out but not advanced
SP_ReserveSlot_KeepHead(pg) ==
    IF pg.freeListHead # SP_INVALID_SLOT
    THEN [page |-> pg, id |-> pg.freeListHead]
    ELSE IF pg.slotCount >= SP_MAX_SLOTS
    THEN [page |-> pg, id |-> SP_ERR_NOSPACE]
    ELSE [page |-> [pg EXCEPT !.slotCount = ToShort(pg.slotCount + 1)],
          id   |-> pg.slotCount]

\* mutant of SP_ReserveSlot: tombstones are never reused
SP_ReserveSlot_AlwaysAppend(pg) ==
    IF pg.slotCount >= SP_MAX_SLOTS
    THEN [page |-> pg, id |-> SP_ERR_NOSPACE]
    ELSE [page |-> [pg EXCEPT !.slotCount = ToShort(pg.slotCount + 1)],
          id   |-> pg.slotCount]

\* result: the page, and the slot id or SP_ERR_NOSPACE
SP_ReserveSlot(pg) ==
    IF pg.freeListHead # SP_INVALID_SLOT
    THEN [page |-> [pg EXCEPT !.freeListHead = pg.slot[pg.freeListHead].offset],
          id   |-> pg.freeListHead]
    ELSE IF pg.slotCount >= SP_MAX_SLOTS
    THEN [page |-> pg, id |-> SP_ERR_NOSPACE]
    ELSE [page |-> [pg EXCEPT !.slotCount = ToShort(pg.slotCount + 1)],
          id   |-> pg.slotCount]

\* first loop of SP_CompactPage: order[] holds the live slot ids, ascending
RECURSIVE CollectLive(_, _)
CollectLive(pg, i) ==
    IF i >= pg.slotCount THEN << >>
    ELSE (IF pg.slot[i].length > 0 THEN <<i>> ELSE << >>)
         \o CollectLive(pg, i + 1)

SwapAt(order, i, j) == [order EXCEPT ![i] = order[j], ![j] = order[i]]

\* mutant of SortInner: the live slots are sorted by ascending offset
RECURSIVE SortInner_Ascending(_, _, _, _)
SortInner_Ascending(pg, order, i, j) ==
    IF j > Len(order) THEN order
    ELSE SortInner_Ascending(pg,
                   IF pg.slot[order[i]].offset > pg.slot[order[j]].offset
                       THEN SwapAt(order, i, j) ELSE order,
                   i, j + 1)

\* second loop nest of SP_CompactPage (indices are 1-based here)
RECURSIVE SortInner(_, _, _, _)
SortInner(pg, order, i, j) ==
    IF j > Len(order) THEN order
    ELSE SortInner(pg,
                   IF pg.slot[order[i]].offset < pg.slot[order[j]].offset
                       THEN SwapAt(order, i, j) ELSE order,
                   i, j + 1)

RECURSIVE SortOuter(_, _, _)
SortOuter(pg, order, i) ==
    IF i > Len(order) THEN order
    ELSE SortOuter(pg, SortInner(pg, order, i, i + 1), i + 1)

\* third loop of SP_CompactPage and the final store of freePtr
RECURSIVE CompactMove(_, _, _, _)
CompactMove(pg, order, i, freePtr) ==
    IF i > Len(order) THEN [pg EXCEPT !.freePtr = freePtr]
    ELSE LET s   == pg.slot[order[i]]
             fp1 == ToShort(freePtr - s.length)
             fp  == IF ULt(fp1, HeaderSize) THEN HeaderSize ELSE fp1
             b2  == IF s.offset # fp
                       THEN MemMove(pg.bytes, fp, s.offset, s.length)
                       ELSE pg.bytes
         IN  CompactMove([pg EXCEPT !.bytes = b2,
                                    !.slot[order[i]].offset = fp],
                         order, i + 1, fp)

SP_CompactPage(pg) ==
    CompactMove(pg, SortOuter(pg, CollectLive(pg, 0), 1), 1,
                ToShort(PF_PAGE_SIZE))

\* mutant of SP_EnsureSpace: no compaction before giving up
SP_EnsureSpace_NoCompact(pg, neededBytes) ==
    IF SP_PageFreeSpace(pg) >= neededBytes
    THEN [page |-> pg, rc |-> SP_OK]
    ELSE [page |-> pg, rc |-> SP_ERR_NOSPACE]

SP_EnsureSpace(pg, neededBytes) ==
    IF SP_PageFreeSpace(pg) >= neededBytes
    THEN [page |-> pg, rc |-> SP_OK]
    ELSE LET c == SP_CompactPage(pg)
         IN  IF SP_PageFreeSpace(c) >= neededBytes
             THEN [page |-> c, rc |-> SP_OK]
             ELSE [page |-> c, rc |-> SP_ERR_NOSPACE]

\* slot = SP_SLOT(pageBuf,id); slot->offset = dest; slot->length = length
WriteSlot(pg, id, dest, length) ==
    [pg EXCEPT !.slot =
        [i \in 0..(pg.slotCount - 1) |->
            IF i = id THEN [offset |-> dest, length |-> length]
            ELSE pg.slot[i]]]

\* mutant of InsertCopied: header->freePtr is not lowered
InsertCopied_KeepFreePtr(pg, data, length, dest) ==
    [pg EXCEPT !.bytes = MemCopy(pg.bytes, dest, data, length)]

\* the page after memcpy and header->freePtr = dest, before SP_ReserveSlot
InsertCopied(pg, data, length, dest) ==
    [pg EXCEPT !.bytes = MemCopy(pg.bytes, dest, data, length),
               !.freePtr = dest]

\* mutant of NeedSlotBytes: the new directory entry is not accounted for
NeedSlotBytes_None(pg) == 0

\* int needSlotBytes = (freeListHead == SP_INVALID_SLOT) ? sizeof(entry) : 0
NeedSlotBytes(pg) ==
    IF pg.freeListHead = SP_INVALID_SLOT THEN SlotSize ELSE 0

\* mutant of SP_InsertRecord: the slot is reserved before the space is
\* ensured, so a refused insert leaves the directory changed
SP_InsertRecord_ReserveFirst(pg, data, length) ==
    LET needed == length + NeedSlotBytes(pg)
    IN  IF length <= 0
        THEN [page |-> pg, rc |-> SP_ERR_NOSPACE, slotId |-> SP_INVALID_SLOT,
              mid |-> pg]
        ELSE LET rv == SP_ReserveSlot(pg)
                 rs == [id   |-> rv.id,
                        page |-> [rv.page EXCEPT !.slot =
                                     [i \in 0..(rv.page.slotCount - 1) |->
                                         IF i < pg.slotCount THEN pg.slot[i]
                                         ELSE [offset |-> 0, length |-> 0]]]]
                 es == SP_EnsureSpace(rs.page, needed - NeedSlotBytes(pg))
             IN
        IF rs.id < 0 \/ es.rc # SP_OK
        THEN [page |-> es.page, rc |-> SP_ERR_NOSPACE,
              slotId |-> SP_INVALID_SLOT, mid |-> pg]
        ELSE LET dest   == ToShort(es.page.freePtr - length)
                 copied == InsertCopied(es.page, data, length, dest)
             IN  [page |-> WriteSlot(copied, rs.id, dest, length),
                  rc |-> SP_OK, slotId |-> rs.id, mid |-> copied]

\* result: the page, the return code, *slotId (SP_INVALID_SLOT: not written)
\* and mid, the page as it is between header->freePtr = dest and the call of
\* SP_ReserveSlot (the page as passed in when that point is not reached)
SP_InsertRecord(pg, data, length) ==
    LET needed == length + NeedSlotBytes(pg)
    IN  IF length <= 0
        THEN [page |-> pg, rc |-> SP_ERR_NOSPACE, slotId |-> SP_INVALID_SLOT,
              mid |-> pg]
        ELSE LET es == SP_EnsureSpace(pg, needed) IN
        IF es.rc # SP_OK
        THEN [page |-> es.page, rc |-> SP_ERR_NOSPACE,
              slotId |-> SP_INVALID_SLOT, mid |-> pg]
        ELSE LET dest == ToShort(es.page.freePtr - length) IN
        IF ULt(dest, HeaderSize)
        THEN [page |-> es.page, rc |-> SP_ERR_NOSPACE,
              slotId |-> SP_INVALID_SLOT, mid |-> pg]
        ELSE LET copied == InsertCopied(es.page, data, length, dest)
                 rs     == SP_ReserveSlot(copied)
             IN
        IF rs.id < 0
        THEN [page |-> rs.page, rc |-> rs.id, slotId |-> SP_INVALID_SLOT,
              mid |-> copied]
        ELSE [page |-> WriteSlot(rs.page, rs.id, dest, length),
              rc |-> SP_OK, slotId |-> rs.id, mid |-> copied]

\* mutant of SP_DeleteRecord: the heap is given back the deleted record
\* when that record is the lowest of the heap
SP_DeleteRecord_Reclaim(pg, slotId) ==
    IF slotId < 0 \/ slotId >= pg.slotCount
    THEN [page |-> pg, rc |-> SP_ERR_INVALID_SLOT]
    ELSE IF pg.slot[slotId].length <= 0
    THEN [page |-> pg, rc |-> SP_ERR_INVALID_SLOT]
    ELSE [page |-> [pg EXCEPT !.slot[slotId] =
                                  [offset |-> pg.freeListHead, length |-> -1],
                              !.freeListHead = slotId,
                              !.freePtr =
                                  IF pg.slot[slotId].offset = pg.freePtr
                                  THEN ToShort(pg.freePtr
                                               + pg.slot[slotId].length)
                                  ELSE pg.freePtr],
          rc |-> SP_OK]

\* mutant of SP_DeleteRecord: a tombstone is not recognised
SP_DeleteRecord_NoTombstoneCheck(pg, slotId) ==
    IF slotId < 0 \/ slotId >= pg.slotCount
    THEN [page |-> pg, rc |-> SP_ERR_INVALID_SLOT]
    ELSE [page |-> [pg EXCEPT !.slot[slotId] =
                                  [offset |-> pg.freeListHead, length |-> -1],
                              !.freeListHead = slotId],
          rc |-> SP_OK]

SP_DeleteRecord(pg, slotId) ==
    IF slotId < 0 \/ slotId >= pg.slotCount
    THEN [page |-> pg, rc |-> SP_ERR_INVALID_SLOT]
    ELSE IF pg.slot[slotId].length <= 0
    THEN [page |-> pg, rc |-> SP_ERR_INVALID_SLOT]
    ELSE [page |-> [pg EXCEPT !.slot[slotId] =
                                  [offset |-> pg.freeListHead, length |-> -1],
                              !.freeListHead = slotId],
          rc |-> SP_OK]

\* result: return code, *dataPtr - pageBuf, *length
SP_GetRecord(pg, slotId) ==
    IF slotId < 0 \/ slotId >= pg.slotCount
    THEN [rc |-> SP_ERR_INVALID_SLOT, offset |-> -1, length |-> 0]
    ELSE IF pg.slot[slotId].length <= 0
    THEN [rc |-> SP_ERR_INVALID_SLOT, offset |-> -1, length |-> 0]
    ELSE [rc |-> SP_OK, offset |-> pg.slot[slotId].offset,
          length |-> pg.slot[slotId].length]

\* mutant of NextLiveFrom: every slot of nonzero length counts as live
RECURSIVE NextLiveFrom_NonZero(_, _)
NextLiveFrom_NonZero(pg, i) ==
    IF i >= pg.slotCount THEN -1
    ELSE IF pg.slot[i].length # 0 THEN i
    ELSE NextLiveFrom_NonZero(pg, i + 1)

\* the for loop of SP_GetNextRecord from index i
RECURSIVE NextLiveFrom(_, _)
NextLiveFrom(pg, i) ==
    IF i >= pg.slotCount THEN -1
    ELSE IF pg.slot[i].length > 0 THEN i
    ELSE NextLiveFrom(pg, i + 1)

\* result: return code, *cursor, *dataPtr - pageBuf, *length
SP_GetNextRecord(pg, cur) ==
    LET start == IF cur < 0 THEN 0 ELSE ToShort(cur + 1)
        i     == NextLiveFrom(pg, start)
    IN  IF i >= 0
        THEN [rc |-> SP_OK, cursor |-> ToShort(i),
              offset |-> pg.slot[i].offset, length |-> pg.slot[i].length]
        ELSE [rc |-> SP_ERR_EMPTY, cursor |-> -1, offset |-> -1, length |-> 0]

\* ------------------------------------------------ the statistics registry
\* (pflayer/pf_stats.c; PFstats is static, so these functions are the only
\* code that writes a counter)

\* memset(&PFstats, 0, sizeof(PFstats))
PFStatsReset ==
    [logicalReads |-> 0, logicalWrites |-> 0, physicalReads |-> 0,
     physicalWrites |-> 0, inputCount |-> 0, outputCount |-> 0,
     pageFixes |-> 0, dirtyMarks |-> 0]

PFStatsIncLogicalRead(st) == [st EXCEPT !.logicalReads = @ + 1]

PFStatsIncLogicalWrite(st) == [st EXCEPT !.logicalWrites = @ + 1]

\* mutant of PFStatsIncPhysicalRead: only physicalReads is incremented
PFStatsIncPhysicalRead_NoInput(st) == [st EXCEPT !.physicalReads = @ + 1]

PFStatsIncPhysicalRead(st) ==
    [st EXCEPT !.physicalReads = @ + 1, !.inputCount = @ + 1]

PFStatsIncPhysicalWrite(st) ==
    [st EXCEPT !.physicalWrites = @ + 1, !.outputCount = @ + 1]

PFStatsIncPageFix(st) == [st EXCEPT !.pageFixes = @ + 1]

PFStatsIncDirtyMark(st) == [st EXCEPT !.dirtyMarks = @ + 1]

\* PFStatsGet: *stats = PFstats
PFStatsGet(st) == st

\* ----------------------------------------------------- the buffer pool
\* (buf.c is not part of the sources at hand; the pool follows section 4.2
\* of the specification.  frames lists the frames in use in usage order,
\* head first; a frame is its page, its pin count and its dirty flag.)

NoPoolCall ==
    [op |-> "none", page |-> -1, rc |-> "PFE_OK", victim |-> -1,
     victimPins |-> 0, before |-> << >>]

\* the pool before any page was fetched: capacity is its number of
\* frames, mem the contents of the resident pages, disk the contents of
\* the pages on disk; skipped is a monitor: a victim selection passed over
\* a pinned frame
NoPool ==
    [frames |-> << >>, policy |-> "LRU", last |-> NoPoolCall,
     skipped |-> FALSE, capacity |-> PoolCapacity, mem |-> << >>,
     disk |-> << >>]

\* the position of the frame holding page pn, 0 when it is not resident
FrameOf(frames, pn) ==
    IF \E i \in 1..Len(frames) : frames[i].page = pn
    THEN CHOOSE i \in 1..Len(frames) : frames[i].page = pn
    ELSE 0

\* the frames without position i
RemoveAt(frames, i) ==
    SubSeq(frames, 1, i - 1) \o SubSeq(frames, i + 1, Len(frames))

\* the unpinned frames (pin count = 0)
Unpinned(frames) == {i \in 1..Len(frames) : frames[i].pins = 0}

\* mutant of PFbufSelectVictim: the tail under LRU and the head under MRU,
\* pinned or not
PFbufSelectVictim_AnyFrame(frames, policy) ==
    IF frames = << >> THEN 0
    ELSE IF policy = "LRU" THEN Len(frames) ELSE 1

\* mutant of PFbufSelectVictim: the tail-most unpinned frame under either
\* policy
PFbufSelectVictim_Tail(frames, policy) ==
    LET u == Unpinned(frames)
    IN  IF u = {} THEN 0 ELSE CHOOSE i \in u : \A j \in u : j <= i

\* victim selection: among the unpinned frames the one nearest the tail
\* under LRU, the one nearest the head under MRU; 0 when none is unpinned
PFbufSelectVictim(frames, policy) ==
    LET u == Unpinned(frames)
    IN  IF u = {} THEN 0
        ELSE IF policy = "LRU"
             THEN CHOOSE i \in u : \A j \in u : j <= i
             ELSE CHOOSE i \in u : \A j \in u : i <= j

\* the result of a pool call that changes no frame
PoolResult(frames, rc) ==
    [frames |-> frames, rc |-> rc, victim |-> -1, victimPins |-> 0,
     wrote |-> FALSE, read |-> FALSE]

\* a miss: a frame not yet in use is taken, else a victim is selected,
\* written back when dirty and replaced; the page is read unless the call
\* is an alloc; the frame goes to the head, pinned
PoolMiss(frames, capacity, pn, policy, read) ==
    LET fresh == [page |-> pn, pins |-> 1, dirty |-> FALSE]
        v == PFbufSelectVictim(frames, policy)
    IN  IF Len(frames) < capacity
        THEN [PoolResult(<<fresh>> \o frames, "PFE_OK")
                 EXCEPT !.read = read]
        ELSE IF v = 0 THEN PoolResult(frames, "PFE_NOBUF")
        ELSE [frames |-> <<fresh>> \o RemoveAt(frames, v), rc |-> "PFE_OK",
              victim |-> frames[v].page, victimPins |-> frames[v].pins,
              wrote |-> frames[v].dirty, read |-> read]

\* mutant of PFbufGet: a hit pins the frame where it stands
PFbufGet_NoMove(frames, capacity, pn, policy) ==
    LET i == FrameOf(frames, pn)
    IN  IF i # 0
        THEN PoolResult([frames EXCEPT ![i].pins = @ + 1], "PFE_OK")
        ELSE PoolMiss(frames, capacity, pn, policy, TRUE)

\* get: a hit moves the frame to the head and pins it once more
PFbufGet(frames, capacity, pn, policy) ==
    LET i == FrameOf(frames, pn)
    IN  IF i # 0
        THEN PoolResult(<<[frames[i] EXCEPT !.pins = @ + 1]>>
                            \o RemoveAt(frames, i), "PFE_OK")
        ELSE PoolMiss(frames, capacity, pn, policy, TRUE)

\* alloc: as a miss of get, without the read
PFbufAlloc(frames, capacity, pn, policy) ==
    IF FrameOf(frames, pn) # 0 THEN PoolResult(frames, "PFE_PAGEINBUF")
    ELSE PoolMiss(frames, capacity, pn, policy, FALSE)

\* unfix: the pin count decremented, the frame marked dirty on request;
\* releasing a page that is not pinned is reported
PFbufUnfix(frames, pn, dirty) ==
    LET i == FrameOf(frames, pn)
    IN  IF i = 0 \/ (i # 0 /\ frames[i].pins = 0)
        THEN PoolResult(frames, "PFE_PAGEUNFIXED")
        ELSE PoolResult([frames EXCEPT ![i].pins = @ - 1,
                                       ![i].dirty = @ \/ dirty], "PFE_OK")

\* whether the victim selection of a miss has to pass over a pinned frame
\* that the policy would otherwise have taken
Skips(frames, capacity, policy) ==
    /\ Len(frames) = capacity
    /\ Unpinned(frames) # {}
    /\ frames[IF policy = "LRU" THEN Len(frames) ELSE 1].pins > 0

\* mutant of DiskAfter: a dirty victim is dropped without being written
DiskAfter_NoWriteBack(pl, r) == pl.disk

\* the disk after a call with result r: the page of a dirty victim is
\* written back
DiskAfter(pl, r) ==
    IF r.wrote /\ r.victim \in DOMAIN pl.disk
    THEN [pl.disk EXCEPT ![r.victim] = pl.mem[r.victim]]
    ELSE pl.disk

\* the resident contents after a call for page pn with result r: the
\* frame of the victim is given up and the page is read from disk into it
MemAfter(pl, pn, r) ==
    [q \in DOMAIN pl.mem |->
        IF r.read /\ q = pn THEN DiskAfter(pl, r)[pn]
        ELSE IF q = r.victim THEN 0
        ELSE pl.mem[q]]

\* the pool after a call with result r
PoolAfter(pl, op, pn, r) ==
    [pl EXCEPT !.frames = r.frames,
               !.disk = DiskAfter(pl, r),
               !.mem = MemAfter(pl, pn, r),
               !.last = [op |-> op, page |-> pn, rc |-> r.rc,
                         victim |-> r.victim, victimPins |-> r.victimPins,
                         before |-> pl.frames],
               !.skipped = @ \/ (op \in {"get", "alloc"}
                                   /\ FrameOf(pl.frames, pn) = 0
                                   /\ Skips(pl.frames, pl.capacity,
                                            pl.policy))]

\* ------------------------------------------------------ the PF layer
\* (pf.c and buf.c are not part of the sources at hand; the calls below
\* follow section 4.3 of the specification.  A file is its number of data
\* pages, whether it is open, the set of its pinned pages, and the contents
\* of its pages as a caller that pins them finds them.)

NoFile == [open |-> FALSE, numPages |-> 0, pinned |-> {}, pages |-> << >>]

\* the contents of a page nobody wrote yet
NoPage == << >>

\* the caller writes into the buffer of a page it has pinned
WritePage(f, pageNum, content) ==
    [f EXCEPT !.pages[pageNum + 1] = content]

\* the contents of a page
PageOf(f, pageNum) == f.pages[pageNum + 1]

\* the result of a PF call that failed: nothing changed
PF_Fail(f, st) == [f |-> f, st |-> st, rc |-> "PFE_ERR", page |-> -1]

\* PF_OpenFile / PF_OpenFileWithPolicy
PF_OpenFile(f, st) ==
    [f |-> [f EXCEPT !.open = TRUE], st |-> st, rc |-> "PFE_OK", page |-> -1]

\* mutant of PF_CloseFile: the file is closed with its pages still pinned
PF_CloseFile_Lenient(f, st) ==
    IF ~f.open THEN PF_Fail(f, st)
    ELSE [f |-> [f EXCEPT !.open = FALSE], st |-> st, rc |-> "PFE_OK",
          page |-> -1]

\* PF_CloseFile: fails while a page of the file is pinned
PF_CloseFile(f, st) ==
    IF f.pinned # {} \/ ~f.open THEN PF_Fail(f, st)
    ELSE [f |-> [f EXCEPT !.open = FALSE], st |-> st, rc |-> "PFE_OK",
          page |-> -1]

\* PF_AllocPage: appends a page and returns it pinned
PF_AllocPage(f, st) ==
    [f |-> [f EXCEPT !.numPages = @ + 1, !.pinned = @ \cup {f.numPages},
                     !.pages = Append(@, NoPage)],
     st |-> st, rc |-> "PFE_OK", page |-> f.numPages]

\* mutant of PF_GetThisPage: a successful fetch is not counted
PF_GetThisPage_NoCount(f, st, pageNum) ==
    IF pageNum \notin 0..(f.numPages - 1) \/ pageNum \in f.pinned
    THEN PF_Fail(f, st)
    ELSE [f |-> [f EXCEPT !.pinned = @ \cup {pageNum}],
          st |-> st, rc |-> "PFE_OK", page |-> pageNum]

\* PF_GetThisPage: the page pinned; one logical read when it succeeds
PF_GetThisPage(f, st, pageNum) ==
    IF pageNum \notin 0..(f.numPages - 1) \/ pageNum \in f.pinned
    THEN PF_Fail(f, st)
    ELSE [f |-> [f EXCEPT !.pinned = @ \cup {pageNum}],
          st |-> PFStatsIncLogicalRead(st), rc |-> "PFE_OK",
          page |-> pageNum]

\* PF_GetNextPage: the page after prev, or end-of-file
PF_GetNextPage(f, st, prev) ==
    IF prev + 1 >= f.numPages
    THEN [f |-> f, st |-> st, rc |-> "PFE_EOF", page |-> prev]
    ELSE PF_GetThisPage(f, st, prev + 1)

\* PF_GetFirstPage: the first data page, or end-of-file
PF_GetFirstPage(f, st) == PF_GetNextPage(f, st, -1)

\* PF_UnfixPage: the pin released; one logical write when dirty
PF_UnfixPage(f, st, pageNum, dirty) ==
    IF pageNum \notin f.pinned THEN PF_Fail(f, st)
    ELSE [f |-> [f EXCEPT !.pinned = @ \ {pageNum}],
          st |-> IF dirty THEN PFStatsIncLogicalWrite(st) ELSE st,
          rc |-> "PFE_OK", page |-> pageNum]

\* the return codes of a call that can fail for a reason outside the
\* model (I/O error, no buffer); d is the run that makes the call
Rcs(d) == IF d.faults < d.budget THEN {"PFE_OK", "PFE_ERR"} ELSE {"PFE_OK"}

\* the outcomes of such a call: its modelled result r, or a failure
Outcomes(d, r, f, st) ==
    IF d.faults < d.budget THEN {r, PF_Fail(f, st)} ELSE {r}

\* ------------------------------------------------------- harness runs

NoCall == [op |-> "none", page |-> -1, rc |-> "PFE_OK", pinnedBefore |-> {}]

\* no harness is running
NoRun ==
    [prog |-> "none", pc |-> "none", exit |-> -1, failed |-> FALSE,
     faults |-> 0, budget |-> MaxFaults, after |-> 0, snapped |-> FALSE,
     snapOpen |-> FALSE, call |-> NoCall]

NoLocals == [i |-> 0]

\* the record of the last PF / AM call of the harness
Called(op, pageNum, rc) ==
    [op |-> op, page |-> pageNum, rc |-> rc, pinnedBefore |-> pf.pinned]

\* the harness made a call that returned rc: the monitors are updated
\* (failed: some call returned neither OK nor end-of-file; faults: how
\* many did, of at most budget; after: calls other than PF_CloseFile issued
\* after the first)
Issue(d, op, pageNum, rc) ==
    [d EXCEPT !.call = Called(op, pageNum, rc),
              !.failed = @ \/ rc \notin {"PFE_OK", "PFE_EOF"},
              !.faults = IF rc \notin {"PFE_OK", "PFE_EOF"} THEN @ + 1 ELSE @,
              !.after = IF d.failed /\ op # "PF_CloseFile" THEN @ + 1 ELSE @]

\* the harness leaves main with a status
Exit(d, status) == [d EXCEPT !.pc = "exited", !.exit = status]

\* PF_GetStats(&stats): the monitor notes whether the file is still open
Snapshot(d) == [d EXCEPT !.snapped = TRUE, !.snapOpen = @ \/ pf.open]

\* the state of the PF layer and of the harnesses before anything ran
ExtInit ==
    /\ PFstats = PFStatsReset
    /\ pf = NoFile
    /\ drv = NoRun
    /\ loc = NoLocals
    /\ pool = NoPool

\* ------------------------------------------------------------ the callers

\* whether SP_InsertRecord(pg, ., length) reaches the call of SP_CompactPage
Compacts(pg, length) ==
    /\ length > 0
    /\ SP_PageFreeSpace(pg) < length + NeedSlotBytes(pg)

\* the slot ids that hold a record
LiveSlots(pg) == {i \in 0..(pg.slotCount - 1) : pg.slot[i].length > 0}

\* record lengths offered on the 4096-byte page (scenario 2 of the spec)
ScenarioLens == {100, 150, 200, 500, 3000}

\* the short length argument: invalid (-1, 0) and valid lengths
Lens == IF pageSize = ScenarioPageSize THEN ScenarioLens ELSE (-1)..MaxLen

NoData  == << >>
NoReuse == [stage |-> 0, id |-> -1, len |-> 0, sc |-> 0]

CodecInit(ps) ==
    /\ pageSize = ps
    /\ page = SP_InitPage
    /\ cursor = -1
    /\ mode = "idle"
    /\ returned = << >>
    /\ liveAtStart = {}
    /\ expected = [i \in 0..(SP_MAX_SLOTS - 1) |-> NoData]
    /\ deleted = {}
    /\ reuse = NoReuse
    /\ last = [op |-> "init", len |-> 0, id |-> -1, rc |-> SP_OK,
               compacted |-> FALSE]
    /\ nops = 0

InitWith(ps) == CodecInit(ps) /\ ExtInit

Init == InitWith(SmallPageSize)

InitScenario == InitWith(ScenarioPageSize)

\* a caller inserts one record (SP_InsertRecord); the record's bytes are
\* those of the (nops+1)-th call
Insert(maxOps) ==
    /\ mode = "idle"
    /\ nops < maxOps
    /\ \E length \in Lens :
        \E data \in {DataOf(nops + 1, length)} :
        \E r \in {SP_InsertRecord(page, data, length)} :
              /\ page' = r.page
              /\ expected' = IF r.rc = SP_OK
                                THEN [expected EXCEPT ![r.slotId] = data]
                                ELSE expected
              /\ deleted' = IF r.rc = SP_OK THEN deleted \ {r.slotId}
                            ELSE deleted
              /\ reuse' = IF r.rc = SP_OK
                             THEN [stage |-> IF reuse.stage = 2
                                                /\ reuse.len = length
                                             THEN 3 ELSE 1,
                                   id |-> r.slotId,
                                   len |-> length, sc |-> r.page.slotCount]
                             ELSE NoReuse
              /\ last' = [op |-> "insert", len |-> length, id |-> r.slotId,
                          rc |-> r.rc, compacted |-> Compacts(page, length)]
    /\ nops' = nops + 1
    /\ UNCHANGED <<pageSize, cursor, mode, returned, liveAtStart>>
    /\ UNCHANGED extVars

\* the effect of one SP_DeleteRecord call on the page and the bookkeeping
DeleteCall(slotId) ==
    \E r \in {SP_DeleteRecord(page, slotId)} :
        /\ page' = r.page
        /\ expected' = IF r.rc = SP_OK
                          THEN [expected EXCEPT ![slotId] = NoData]
                          ELSE expected
        /\ deleted' = IF r.rc = SP_OK THEN deleted \cup {slotId} ELSE deleted
        /\ reuse' = IF r.rc = SP_OK /\ reuse.stage \in {1, 3}
                        /\ reuse.id = slotId
                       THEN [reuse EXCEPT !.stage = 2]
                       ELSE NoReuse
        /\ last' = [op |-> "delete", len |-> 0, id |-> slotId, rc |-> r.rc,
                    compacted |-> FALSE]

\* a caller deletes a slot id, valid or not (SP_DeleteRecord)
Delete(maxOps) ==
    /\ mode = "idle"
    /\ nops < maxOps
    /\ \E slotId \in (-1)..page.slotCount : DeleteCall(slotId)
    /\ nops' = nops + 1
    /\ UNCHANGED <<pageSize, cursor, mode, returned, liveAtStart>>
    /\ UNCHANGED extVars

\* a scanning caller starts: short cursor = -1
ScanStart ==
    /\ mode = "idle"
    /\ mode' = "scan"
    /\ cursor' = -1
    /\ returned' = << >>
    /\ liveAtStart' = LiveSlots(page)
    /\ last' = [op |-> "scanstart", len |-> 0, id |-> -1, rc |-> SP_OK,
                compacted |-> FALSE]
    /\ UNCHANGED <<pageSize, page, expected, deleted, reuse, nops>>
    /\ UNCHANGED extVars

\* one evaluation of the loop condition SP_GetNextRecord(...) == SP_OK
ScanNext ==
    /\ mode = "scan"
    /\ \E r \in {SP_GetNextRecord(page, cursor)} :
           /\ cursor' = r.cursor
           /\ returned' = IF r.rc = SP_OK THEN Append(returned, r.cursor)
                          ELSE returned
           /\ mode' = IF r.rc = SP_OK THEN "scan" ELSE "done"
           /\ last' = [op |-> "next", len |-> r.length, id |-> r.cursor,
                       rc |-> r.rc, compacted |-> FALSE]
    /\ UNCHANGED <<pageSize, page, liveAtStart, expected, deleted, reuse, nops>>
    /\ UNCHANGED extVars

\* the loop body of deleteEvery deletes the record the scan just returned
ScanDelete ==
    /\ mode = "scan"
    /\ last.op = "next"
    /\ last.rc = SP_OK
    /\ DeleteCall(cursor)
    /\ UNCHANGED <<pageSize, cursor, mode, returned, liveAtStart, nops>>
    /\ UNCHANGED extVars

\* the scanning caller leaves its loop
ScanEnd ==
    /\ mode = "done"
    /\ mode' = "idle"
    /\ cursor' = -1
    /\ returned' = << >>
    /\ liveAtStart' = {}
    /\ last' = [op |-> "scanend", len |-> 0, id |-> -1, rc |-> SP_OK,
                compacted |-> FALSE]
    /\ UNCHANGED <<pageSize, page, expected, deleted, reuse, nops>>
    /\ UNCHANGED extVars

\* inserts and deletes on the small page
Next ==
    \/ Insert(MaxOps)
    \/ Delete(MaxOps)

Spec == Init /\ [][Next]_vars

\* inserts, deletes and scans on the small page
NextScan ==
    \/ Insert(MaxScanOps)
    \/ Delete(MaxScanOps)
    \/ ScanStart
    \/ ScanNext
    \/ ScanDelete
    \/ ScanEnd

SpecScan == Init /\ [][NextScan]_vars

\* inserts on the 4096-byte page
NextScenario == Insert(MaxScenarioOps)

SpecScenario == InitScenario /\ [][NextScenario]_vars

\* ------------------------------------------- callers of the registry

\* PF_ResetStats() -> PFStatsReset()
ResetStats ==
    /\ PFstats' = PFStatsReset
    /\ UNCHANGED <<codecVars, pf, drv, loc, pool>>

IncLogicalRead ==
    /\ PFstats.logicalReads < MaxCount
    /\ PFstats' = PFStatsIncLogicalRead(PFstats)
    /\ UNCHANGED <<codecVars, pf, drv, loc, pool>>

IncLogicalWrite ==
    /\ PFstats.logicalWrites < MaxCount
    /\ PFstats' = PFStatsIncLogicalWrite(PFstats)
    /\ UNCHANGED <<codecVars, pf, drv, loc, pool>>

IncPhysicalRead ==
    /\ PFstats.physicalReads < MaxCount
    /\ PFstats' = PFStatsIncPhysicalRead(PFstats)
    /\ UNCHANGED <<codecVars, pf, drv, loc, pool>>

IncPhysicalWrite ==
    /\ PFstats.physicalWrites < MaxCount
    /\ PFstats' = PFStatsIncPhysicalWrite(PFstats)
    /\ UNCHANGED <<codecVars, pf, drv, loc, pool>>

IncPageFix ==
    /\ PFstats.pageFixes < MaxCount
    /\ PFstats' = PFStatsIncPageFix(PFstats)
    /\ UNCHANGED <<codecVars, pf, drv, loc, pool>>

IncDirtyMark ==
    /\ PFstats.dirtyMarks < MaxCount
    /\ PFstats' = PFStatsIncDirtyMark(PFstats)
    /\ UNCHANGED <<codecVars, pf, drv, loc, pool>>

\* any sequence of increments and resets of the registry
NextStats ==
    \/ ResetStats
    \/ IncLogicalRead
    \/ IncLogicalWrite
    \/ IncPhysicalRead
    \/ IncPhysicalWrite
    \/ IncPageFix
    \/ IncDirtyMark

SpecStats == Init /\ [][NextStats]_vars

\* ------------------------------------------- callers of the buffer pool

\* a pool under either policy
InitPool ==
    /\ CodecInit(SmallPageSize)
    /\ PFstats = PFStatsReset
    /\ pf = NoFile
    /\ drv = NoRun
    /\ loc = NoLocals
    /\ \E policy \in {"LRU", "MRU"} : pool = [NoPool EXCEPT !.policy = policy]

\* get of a page
PoolGet ==
    /\ \E pn \in 0..(PoolPages - 1) :
        /\ FrameOf(pool.frames, pn) # 0
              => pool.frames[FrameOf(pool.frames, pn)].pins < MaxPins
        /\ pool' = PoolAfter(pool, "get", pn,
                             PFbufGet(pool.frames, pool.capacity, pn,
                                      pool.policy))
    /\ UNCHANGED <<codecVars, PFstats, pf, drv, loc>>

\* alloc of a page that is not resident
PoolAlloc ==
    /\ \E pn \in 0..(PoolPages - 1) :
        /\ FrameOf(pool.frames, pn) = 0
        /\ pool' = PoolAfter(pool, "alloc", pn,
                             PFbufAlloc(pool.frames, pool.capacity, pn,
                                        pool.policy))
    /\ UNCHANGED <<codecVars, PFstats, pf, drv, loc>>

\* unfix of a page, pinned or not, clean or dirty
PoolUnfix ==
    /\ \E pn \in 0..(PoolPages - 1), dirty \in BOOLEAN :
        pool' = PoolAfter(pool, "unfix", pn,
                          PFbufUnfix(pool.frames, pn, dirty))
    /\ UNCHANGED <<codecVars, PFstats, pf, drv, loc>>

NextPool ==
    \/ PoolGet
    \/ PoolAlloc
    \/ PoolUnfix

SpecPool == InitPool /\ [][NextPool]_vars

\* ------------------------------------ a writer of pages over the pool

\* the locals of the writer: latest is a monitor, the value of the latest
\* write to each page; writes counts the writes; back is a monitor, the
\* pages written to disk on eviction
WriterLocals ==
    [latest |-> [p \in 0..(PoolPages - 1) |-> 0], writes |-> 0, back |-> {}]

\* a pool of 1..PoolCapacity frames under either policy over PoolPages
\* pages of zeroes
InitWriter ==
    /\ CodecInit(SmallPageSize)
    /\ PFstats = PFStatsReset
    /\ pf = NoFile
    /\ drv = [NoRun EXCEPT !.prog = "writer"]
    /\ loc = WriterLocals
    /\ \E capacity \in 1..PoolCapacity, policy \in {"LRU", "MRU"} :
        pool = [NoPool EXCEPT !.policy = policy, !.capacity = capacity,
                              !.mem = [p \in 0..(PoolPages - 1) |-> 0],
                              !.disk = [p \in 0..(PoolPages - 1) |-> 0]]

\* get of a page the writer does not hold
WrGet ==
    /\ drv.prog = "writer"
    /\ \E pn \in 0..(PoolPages - 1) :
        /\ FrameOf(pool.frames, pn) # 0
              => pool.frames[FrameOf(pool.frames, pn)].pins = 0
        /\ \E r \in {PFbufGet(pool.frames, pool.capacity, pn,
                               pool.policy)} :
            /\ pool' = PoolAfter(pool, "get", pn, r)
            /\ loc' = [loc EXCEPT !.back = IF r.wrote
                                           THEN @ \cup {r.victim} ELSE @]
    /\ UNCHANGED <<codecVars, PFstats, pf, drv>>

\* the writer stores a value in a page it holds
WrWrite ==
    /\ drv.prog = "writer" /\ loc.writes < MaxWrites
    /\ \E pn \in 0..(PoolPages - 1), v \in 1..MaxValue :
        /\ FrameOf(pool.frames, pn) # 0
        /\ pool.frames[FrameOf(pool.frames, pn)].pins > 0
        /\ pool' = [pool EXCEPT !.mem[pn] = v,
                                !.last = [@ EXCEPT !.op = "write",
                                                   !.page = pn,
                                                   !.before = pool.frames]]
        /\ loc' = [loc EXCEPT !.latest[pn] = v, !.writes = @ + 1]
    /\ UNCHANGED <<codecVars, PFstats, pf, drv>>

\* unfix(dirty = true) of a page the writer holds
WrUnfix ==
    /\ drv.prog = "writer"
    /\ \E pn \in 0..(PoolPages - 1) :
        /\ FrameOf(pool.frames, pn) # 0
        /\ pool.frames[FrameOf(pool.frames, pn)].pins > 0
        /\ pool' = PoolAfter(pool, "unfix", pn,
                             PFbufUnfix(pool.frames, pn, TRUE))
    /\ UNCHANGED <<codecVars, PFstats, pf, drv, loc>>

NextWriter ==
    \/ WrGet
    \/ WrWrite
    \/ WrUnfix

SpecWriter == InitWriter /\ [][NextWriter]_vars

\* ------------------------------------------ a caller of the PF layer

\* an open file of 1..MaxPages pages, none pinned
InitClient ==
    /\ CodecInit(SmallPageSize)
    /\ PFstats = PFStatsReset
    /\ pool = NoPool
    /\ drv = [NoRun EXCEPT !.prog = "client", !.budget = 0]
    /\ loc = NoLocals
    /\ \E numPages \in 1..MaxPages :
        pf = [NoFile EXCEPT !.open = TRUE, !.numPages = numPages,
                            !.pages = [p \in 1..numPages |-> NoPage]]

\* the caller fetches a page
ClGet ==
    /\ drv.prog = "client" /\ loc.i < MaxClientOps /\ pf.open
    /\ \E pageNum \in 0..(pf.numPages - 1) :
       \E r \in {PF_GetThisPage(pf, PFstats, pageNum)} :
        /\ pf' = r.f
        /\ PFstats' = r.st
        /\ drv' = Issue(drv, "PF_GetThisPage", pageNum, r.rc)
    /\ loc' = [loc EXCEPT !.i = @ + 1]
    /\ UNCHANGED idleVars

\* the caller releases a page, clean or dirty
ClUnfix ==
    /\ drv.prog = "client" /\ loc.i < MaxClientOps /\ pf.open
    /\ \E pageNum \in 0..(pf.numPages - 1), dirty \in BOOLEAN :
       \E r \in {PF_UnfixPage(pf, PFstats, pageNum, dirty)} :
        /\ pf' = r.f
        /\ PFstats' = r.st
        /\ drv' = Issue(drv, "PF_UnfixPage", pageNum, r.rc)
    /\ loc' = [loc EXCEPT !.i = @ + 1]
    /\ UNCHANGED idleVars

\* the caller closes the file, whatever it still holds
ClClose ==
    /\ drv.prog = "client" /\ loc.i < MaxClientOps /\ pf.open
    /\ \E r \in {PF_CloseFile(pf, PFstats)} :
        /\ pf' = r.f
        /\ PFstats' = r.st
        /\ drv' = Issue(drv, "PF_CloseFile", -1, r.rc)
    /\ loc' = [loc EXCEPT !.i = @ + 1]
    /\ UNCHANGED idleVars

\* the caller opens the file again
ClOpen ==
    /\ drv.prog = "client" /\ loc.i < MaxClientOps /\ ~pf.open
    /\ \E r \in {PF_OpenFile(pf, PFstats)} :
        /\ pf' = r.f
        /\ PFstats' = r.st
        /\ drv' = Issue(drv, "PF_OpenFile", -1, r.rc)
    /\ loc' = [loc EXCEPT !.i = @ + 1]
    /\ UNCHANGED idleVars

NextClient ==
    \/ ClGet
    \/ ClUnfix
    \/ ClClose
    \/ ClOpen

SpecClient == InitClient /\ [][NextClient]_vars

\* ---------------------------- a sequential scan repeated over the pool

\* the locals of the scan: npages pages are read in order, twice; reads1
\* is the number of physical reads when the first pass ended, and hits
\* and misses are the pages the second pass found resident or not
ScanLocals(npages) ==
    [npages |-> npages, pass |-> 1, next |-> 0, held |-> FALSE,
     reads1 |-> 0, hits |-> {}, misses |-> {}]

\* a scan of 2..MaxScanPages pages over a pool of fewer frames, under
\* either policy
InitSeqScan ==
    /\ CodecInit(SmallPageSize)
    /\ PFstats = PFStatsReset
    /\ pf = NoFile
    /\ drv = [NoRun EXCEPT !.prog = "seq_scan"]
    /\ \E npages \in 2..MaxScanPages :
       \E capacity \in 1..(npages - 1), policy \in {"LRU", "MRU"} :
        /\ loc = ScanLocals(npages)
        /\ pool = [NoPool EXCEPT !.policy = policy,
                                 !.capacity = capacity]

\* the next page of the pass is read: a miss is one physical read
SeqGet ==
    /\ drv.prog = "seq_scan" /\ loc.pass <= 2 /\ ~loc.held
    /\ \E r \in {PFbufGet(pool.frames, pool.capacity, loc.next,
                           pool.policy)} :
        /\ pool' = PoolAfter(pool, "get", loc.next, r)
        /\ PFstats' = IF r.read THEN PFStatsIncPhysicalRead(PFstats)
                      ELSE PFstats
        /\ loc' = [loc EXCEPT
                     !.held = (r.rc = "PFE_OK"),
                     !.hits = IF loc.pass = 2 /\ ~r.read
                              THEN @ \cup {loc.next} ELSE @,
                     !.misses = IF loc.pass = 2 /\ r.read
                                THEN @ \cup {loc.next} ELSE @]
    /\ UNCHANGED <<codecVars, pf, drv>>

\* the page is released, clean, before the next one is read
SeqUnfix ==
    /\ drv.prog = "seq_scan" /\ loc.held
    /\ \E r \in {PFbufUnfix(pool.frames, loc.next, FALSE)} :
        /\ pool' = PoolAfter(pool, "unfix", loc.next, r)
        /\ loc' = IF loc.next + 1 < loc.npages
                  THEN [loc EXCEPT !.held = FALSE, !.next = @ + 1]
                  ELSE [loc EXCEPT !.held = FALSE, !.next = 0,
                                   !.pass = @ + 1,
                                   !.reads1 = IF loc.pass = 1
                                              THEN PFstats.physicalReads
                                              ELSE @]
    /\ UNCHANGED <<codecVars, PFstats, pf, drv>>

NextSeqScan ==
    \/ SeqGet
    \/ SeqUnfix

SpecSeqScan == InitSeqScan /\ [][NextSeqScan]_vars

\* ------------------------------------- the mixed driver (pf_benchmark.c)

\* the mixes offered to --mix: the default 8:2, reads only, writes only
Mixes == {<<8, 2>>, <<1, 0>>, <<0, 1>>}

\* the locals of main after option parsing (numPages and operations are
\* positive, parseMix accepted the mix)
MixLocals(numPages, operations, mix) ==
    [i |-> 0, numPages |-> numPages, operations |-> operations,
     readWeight |-> mix[1], writeWeight |-> mix[2], isWrite |-> FALSE,
     pageNum |-> -1, stats |-> PFStatsReset, writes |-> 0]

InitMixed ==
    /\ CodecInit(SmallPageSize)
    /\ PFstats = PFStatsReset
    /\ pf = NoFile
    /\ pool = NoPool
    /\ drv = [NoRun EXCEPT !.prog = "pf_benchmark", !.pc = "create"]
    /\ \E numPages \in 1..MaxPages, operations \in 1..MaxMixOps,
          mix \in Mixes :
           loc = MixLocals(numPages, operations, mix)

\* PF_DestroyFile; PF_CreateFile, return 1 when it fails
MixCreate ==
    /\ drv.prog = "pf_benchmark" /\ drv.pc = "create"
    /\ \E rc \in Rcs(drv) :
        LET d == Issue(drv, "PF_CreateFile", -1, rc)
        IN  drv' = IF rc = "PFE_OK" THEN [d EXCEPT !.pc = "open"]
                   ELSE Exit(d, 1)
    /\ UNCHANGED <<idleVars, PFstats, pf, loc>>

\* PF_OpenFileWithPolicy, return 1 when it fails
MixOpen ==
    /\ drv.prog = "pf_benchmark" /\ drv.pc = "open"
    /\ \E r \in Outcomes(drv, PF_OpenFile(pf, PFstats), pf, PFstats) :
        LET d == Issue(drv, "PF_OpenFile", -1, r.rc)
        IN  /\ pf' = r.f
            /\ drv' = IF r.rc = "PFE_OK" THEN [d EXCEPT !.pc = "alloc"]
                      ELSE Exit(d, 1)
    /\ UNCHANGED <<idleVars, PFstats, loc>>

\* the PF_AllocPage of the initialisation loop
MixAlloc ==
    /\ drv.prog = "pf_benchmark" /\ drv.pc = "alloc"
    /\ \E r \in Outcomes(drv, PF_AllocPage(pf, PFstats), pf, PFstats) :
        LET d == Issue(drv, "PF_AllocPage", r.page, r.rc)
        IN  /\ pf' = r.f
            /\ PFstats' = r.st
            /\ drv' = [d EXCEPT !.pc = IF r.rc = "PFE_OK" THEN "allocunfix"
                                       ELSE "abort"]
            /\ loc' = [loc EXCEPT !.pageNum = r.page]
    /\ UNCHANGED idleVars

\* memset, memcpy of i, PF_UnfixPage(fd,pageNum,TRUE) and the loop increment
MixAllocUnfix ==
    /\ drv.prog = "pf_benchmark" /\ drv.pc = "allocunfix"
    /\ \E r \in {PF_UnfixPage(WritePage(pf, loc.pageNum, loc.i), PFstats,
                             loc.pageNum, TRUE)} :
        LET d == Issue(drv, "PF_UnfixPage", loc.pageNum, r.rc)
        IN  /\ pf' = r.f
            /\ PFstats' = r.st
            /\ drv' = [d EXCEPT !.pc = IF loc.i + 1 < loc.numPages
                                       THEN "alloc" ELSE "reset"]
            /\ loc' = [loc EXCEPT !.i = @ + 1]
    /\ UNCHANGED idleVars

\* PF_ResetStats before the measured loop
MixReset ==
    /\ drv.prog = "pf_benchmark" /\ drv.pc = "reset"
    /\ PFstats' = PFStatsReset
    /\ drv' = [drv EXCEPT !.pc = "get"]
    /\ loc' = [loc EXCEPT !.i = 0]
    /\ UNCHANGED <<idleVars, pf>>

\* one operation of the measured loop up to its PF_GetThisPage:
\* pick = rand() % (readWeight + writeWeight), isWrite = pick >= readWeight,
\* pageNum = rand() % numPages
MixGet ==
    /\ drv.prog = "pf_benchmark" /\ drv.pc = "get"
    /\ \E pick \in 0..(loc.readWeight + loc.writeWeight - 1),
          pageNum \in 0..(loc.numPages - 1) :
       \E r \in Outcomes(drv, PF_GetThisPage(pf, PFstats, pageNum),
                          pf, PFstats) :
        LET d == Issue(drv, "PF_GetThisPage", pageNum, r.rc)
        IN  /\ pf' = r.f
            /\ PFstats' = r.st
            /\ drv' = [d EXCEPT !.pc = IF r.rc = "PFE_OK" THEN "unfix"
                                       ELSE "abort"]
            /\ loc' = [loc EXCEPT !.pageNum = pageNum,
                                  !.isWrite = (pick >= loc.readWeight)]
    /\ UNCHANGED idleVars

\* mutant of MixUnfix: the page of a write is released clean
MixUnfix_Clean ==
    /\ drv.prog = "pf_benchmark" /\ drv.pc = "unfix"
    /\ \E r \in {PF_UnfixPage(pf, PFstats, loc.pageNum, FALSE)} :
        LET d == Issue(drv, "PF_UnfixPage", loc.pageNum, r.rc)
        IN  /\ pf' = r.f
            /\ PFstats' = r.st
            /\ drv' = [d EXCEPT !.pc = IF loc.i + 1 < loc.operations
                                       THEN "get" ELSE "stats"]
            /\ loc' = [loc EXCEPT !.i = @ + 1,
                                  !.writes = IF loc.isWrite THEN @ + 1 ELSE @]
    /\ UNCHANGED idleVars

\* the rest of the operation: a write stores i in the page and releases it
\* dirty, a read releases it clean; loop increment
MixUnfix ==
    /\ drv.prog = "pf_benchmark" /\ drv.pc = "unfix"
    /\ \E r \in {PF_UnfixPage(IF loc.isWrite
                                THEN WritePage(pf, loc.pageNum, loc.i)
                                ELSE pf,
                             PFstats, loc.pageNum, loc.isWrite)} :
        LET d == Issue(drv, "PF_UnfixPage", loc.pageNum, r.rc)
        IN  /\ pf' = r.f
            /\ PFstats' = r.st
            /\ drv' = [d EXCEPT !.pc = IF loc.i + 1 < loc.operations
                                       THEN "get" ELSE "stats"]
            /\ loc' = [loc EXCEPT !.i = @ + 1,
                                  !.writes = IF loc.isWrite THEN @ + 1 ELSE @]
    /\ UNCHANGED idleVars

\* PF_GetStats(&stats) after the loop
MixStats ==
    /\ drv.prog = "pf_benchmark" /\ drv.pc = "stats"
    /\ loc' = [loc EXCEPT !.stats = PFStatsGet(PFstats)]
    /\ drv' = [Snapshot(drv) EXCEPT !.pc = "close"]
    /\ UNCHANGED <<idleVars, PFstats, pf>>

\* PF_CloseFile, the CSV row, return 0
MixClose ==
    /\ drv.prog = "pf_benchmark" /\ drv.pc = "close"
    /\ \E r \in {PF_CloseFile(pf, PFstats)} :
        /\ pf' = r.f
        /\ drv' = Exit(Issue(drv, "PF_CloseFile", -1, r.rc), 0)
    /\ UNCHANGED <<idleVars, PFstats, loc>>

\* the error path of both loops: PF_CloseFile, return 1
MixAbort ==
    /\ drv.prog = "pf_benchmark" /\ drv.pc = "abort"
    /\ \E r \in {PF_CloseFile(pf, PFstats)} :
        /\ pf' = r.f
        /\ drv' = Exit(Issue(drv, "PF_CloseFile", -1, r.rc), 1)
    /\ UNCHANGED <<idleVars, PFstats, loc>>

NextMixed ==
    \/ MixCreate
    \/ MixOpen
    \/ MixAlloc
    \/ MixAllocUnfix
    \/ MixReset
    \/ MixGet
    \/ MixUnfix
    \/ MixStats
    \/ MixClose
    \/ MixAbort

SpecMixed == InitMixed /\ [][NextMixed]_vars

\* --------------------------------------- the loader (student_store)

\* record lengths that straddle the capacity of an empty 4096-byte page,
\* up to the longest line fgets can return
BigLens ==
    {1, ScenarioPageSize - HeaderSize - SlotSize,
     ScenarioPageSize - HeaderSize - SlotSize + 1, LineSize - 1}

\* the lengths (after trimming) of the line the loader reads next
LineLens(l) ==
    CASE l.input = "scenario" -> {l.pattern[1 + (l.i % Len(l.pattern))]}
      [] l.input = "big" -> BigLens
      [] OTHER -> 1..MaxLen

\* the data file has at least / at most this many digit-leading lines
MinLines(l) == IF l.input = "scenario" THEN ScenarioRecords ELSE 0

MaxLines(l) ==
    CASE l.input = "scenario" -> ScenarioRecords
      [] l.input = "big" -> MaxBigRecs
      [] OTHER -> MaxRecs

\* the records of page p from slot s on, in ascending slot order
RECURSIVE SlotsFrom(_, _, _)
SlotsFrom(pg, p, s) ==
    IF s >= pg.slotCount THEN << >>
    ELSE (IF pg.slot[s].length > 0 THEN << <<p, s>> >> ELSE << >>)
             \o SlotsFrom(pg, p, s + 1)

\* the global scan order: pages in iteration order, ascending slot id
RECURSIVE OrderFrom(_, _)
OrderFrom(f, p) ==
    IF p >= f.numPages THEN << >>
    ELSE SlotsFrom(PageOf(f, p), p, 0) \o OrderFrom(f, p + 1)

ScanOrder(f) == OrderFrom(f, 0)

\* the records of the file that are live
LiveSet(f) ==
    {ps \in (0..(f.numPages - 1)) \X (0..(SP_MAX_SLOTS - 1)) :
        /\ ps[2] < PageOf(f, ps[1]).slotCount
        /\ PageOf(f, ps[1]).slot[ps[2]].length > 0}

\* StudentStore store = {-1,-1,0,0} and the locals of main and of the
\* passes; order, delDone, scanDone, retried and retryRc are monitors
LoaderLocals(input, deleteStep) ==
    [input |-> input, i |-> 0, len |-> 0, deleteStep |-> deleteStep,
     lastPage |-> -1, pageCount |-> 0, recordCount |-> 0, pageNum |-> -1,
     totalRecords |-> 0, totalBytes |-> 0, deletedRecords |-> 0,
     activeRecords |-> 0, slottedPages |-> 0, payloadBytes |-> 0,
     payloadBefore |-> 0, pagesBefore |-> 0,
     pass |-> "load", first |-> TRUE, counter |-> 0, deleted |-> 0,
     count |-> 0, totalPages |-> 0, totalPayload |-> 0,
     order |-> << >>, delDone |-> FALSE, scanDone |-> FALSE,
     retried |-> FALSE, retryRc |-> SP_OK, pattern |-> << >>]

\* the data files of the scenario: a block of three line lengths, repeated
Patterns == (1..MaxLen) \X (1..MaxLen) \X (1..MaxLen)

InitLoaderWith(ps, input, steps) ==
    /\ CodecInit(ps)
    /\ PFstats = PFStatsReset
    /\ pf = NoFile
    /\ pool = NoPool
    /\ drv = [NoRun EXCEPT !.prog = "student_store", !.pc = "create",
                           !.budget = IF input = "scenario" THEN 0
                                      ELSE MaxFaults]
    /\ \E deleteStep \in steps :
       \E pattern \in IF input = "scenario" THEN Patterns ELSE {<< >>} :
        loc = [LoaderLocals(input, deleteStep) EXCEPT !.pattern = pattern]

\* any data file of up to MaxRecs short lines, small pages
InitLoader == InitLoaderWith(SmallPageSize, "any", 0..MaxStep)

\* the scenario: ScenarioRecords lines, delete step ScenarioStep, and no
\* call fails
InitLoad1000 == InitLoaderWith(SmallPageSize, "scenario", {ScenarioStep})

\* lines of up to LineSize - 1 characters, 4096-byte pages
InitBigLoader == InitLoaderWith(ScenarioPageSize, "big", {0, 1})

\* mutant of Hit: the record before every step-th one is chosen
Hit_OffByOne(counter, step) == step > 0 /\ ((counter + 1) % step) = 0

\* step > 0 && (counter % step)==0
Hit(counter, step) == step > 0 /\ (counter % step) = 0

\* the inner loop of deleteEvery on one page, from cursor cur on
RECURSIVE DeleteEveryPage(_, _, _, _, _, _)
DeleteEveryPage(pg, cur, counter, del, dirty, step) ==
    LET r == SP_GetNextRecord(pg, cur)
    IN  IF r.rc # SP_OK
        THEN [page |-> pg, counter |-> counter, deleted |-> del,
              dirty |-> dirty]
        ELSE IF Hit(counter + 1, step)
             THEN LET dr == SP_DeleteRecord(pg, r.cursor)
                  IN  IF dr.rc = SP_OK
                      THEN DeleteEveryPage(dr.page, r.cursor, counter + 1,
                                           del + 1, TRUE, step)
                      ELSE DeleteEveryPage(pg, r.cursor, counter + 1, del,
                                           dirty, step)
             ELSE DeleteEveryPage(pg, r.cursor, counter + 1, del, dirty,
                                  step)

\* mutant of ScanCountPage: every slot is counted, live or deleted
ScanCountPage_AllSlots(pg, cur, count) == count + pg.slotCount

\* the inner loop of scanCount on one page
RECURSIVE ScanCountPage(_, _, _)
ScanCountPage(pg, cur, count) ==
    LET r == SP_GetNextRecord(pg, cur)
    IN  IF r.rc # SP_OK THEN count
        ELSE ScanCountPage(pg, r.cursor, count + 1)

\* the locals of a pass before its PF_GetFirstPage
StartPass(l, pass) ==
    [l EXCEPT !.pass = pass, !.first = TRUE, !.counter = 0, !.deleted = 0,
              !.count = 0, !.totalPages = 0, !.totalPayload = 0,
              !.order = IF pass = "delete" /\ l.input = "any"
                        THEN ScanOrder(pf) ELSE @]

\* a pass ends because its page iteration returned rc (end-of-file or an
\* error): what main does next, as the new position and locals
EndPass(l, rc) ==
    CASE l.pass = "usage0" ->
            \* computeUsage(&store,&pagesBefore,&payloadBefore), result unused
            LET l1 == IF rc = "PFE_EOF"
                      THEN [l EXCEPT !.pagesBefore = l.totalPages,
                                     !.payloadBefore = l.totalPayload]
                      ELSE l
            IN  [pc |-> "fetch",
                 loc |-> StartPass(l1, IF l.deleteStep > 0 THEN "delete"
                                       ELSE "scan")]
      [] l.pass = "delete" ->
            \* deleteEvery prints the error and returns deleted
            [pc |-> "fetch",
             loc |-> StartPass([l EXCEPT !.deletedRecords = l.deleted,
                                         !.delDone = (rc = "PFE_EOF")],
                               "scan")]
      [] l.pass = "scan" ->
            \* scanCount returns -1 on an error; main then aborts
            IF rc = "PFE_EOF"
            THEN [pc |-> "fetch",
                  loc |-> StartPass([l EXCEPT !.activeRecords = l.count,
                                              !.scanDone = TRUE], "usage")]
            ELSE [pc |-> "abort", loc |-> [l EXCEPT !.activeRecords = -1]]
      [] OTHER ->
            \* the final computeUsage; main aborts when it fails
            IF rc = "PFE_EOF"
            THEN [pc |-> "metrics",
                  loc |-> [l EXCEPT !.slottedPages = l.totalPages,
                                    !.payloadBytes = l.totalPayload]]
            ELSE [pc |-> "abort", loc |-> l]

\* PF_DestroyFile; PF_CreateFile, return 1 when it fails
LdCreate ==
    /\ drv.prog = "student_store" /\ drv.pc = "create"
    /\ \E rc \in Rcs(drv) :
        LET d == Issue(drv, "PF_CreateFile", -1, rc)
        IN  drv' = IF rc = "PFE_OK" THEN [d EXCEPT !.pc = "open"]
                   ELSE Exit(d, 1)
    /\ UNCHANGED <<idleVars, PFstats, pf, loc>>

\* initStore: PF_OpenFileWithPolicy, return 1 when it fails
LdOpen ==
    /\ drv.prog = "student_store" /\ drv.pc = "open"
    /\ \E r \in Outcomes(drv, PF_OpenFile(pf, PFstats), pf, PFstats) :
        LET d == Issue(drv, "PF_OpenFile", -1, r.rc)
        IN  /\ pf' = r.f
            /\ drv' = IF r.rc = "PFE_OK" THEN [d EXCEPT !.pc = "fopen"]
                      ELSE Exit(d, 1)
    /\ UNCHANGED <<idleVars, PFstats, loc>>

\* fopen(dataPath,"r"); closeStore and return 1 when it fails
LdFopen ==
    /\ drv.prog = "student_store" /\ drv.pc = "fopen"
    /\ \E rc \in Rcs(drv) :
        LET d == Issue(drv, "fopen", -1, rc)
        IN  drv' = [d EXCEPT !.pc = IF rc = "PFE_OK" THEN "line"
                                    ELSE "abort"]
    /\ UNCHANGED <<idleVars, PFstats, pf, loc>>

\* fgets: the next digit-leading non-empty line, trimmed (its length is
\* below 32760), or the end of the data file and the first computeUsage
LdLine ==
    /\ drv.prog = "student_store" /\ drv.pc = "line"
    /\ \/ /\ loc.i < MaxLines(loc)
          /\ \E len \in LineLens(loc) : loc' = [loc EXCEPT !.len = len]
          /\ drv' = [drv EXCEPT !.pc = "ins_fetch"]
       \/ /\ loc.i >= MinLines(loc)
          /\ loc' = StartPass(loc, "usage0")
          /\ drv' = [drv EXCEPT !.pc = "fetch"]
    /\ UNCHANGED <<idleVars, PFstats, pf>>

\* insertRecord up to its first page: PF_AllocPage and SP_InitPage when
\* the store has no page yet, PF_GetThisPage of the last page otherwise
LdInsFetch ==
    /\ drv.prog = "student_store" /\ drv.pc = "ins_fetch"
    /\ \E r \in Outcomes(drv, IF loc.lastPage < 0
                              THEN PF_AllocPage(pf, PFstats)
                              ELSE PF_GetThisPage(pf, PFstats, loc.lastPage),
                         pf, PFstats) :
        LET d == Issue(drv, IF loc.lastPage < 0 THEN "PF_AllocPage"
                            ELSE "PF_GetThisPage", r.page, r.rc)
        IN  /\ PFstats' = r.st
            /\ IF r.rc # "PFE_OK"
               THEN /\ pf' = r.f
                    /\ loc' = loc
                    /\ drv' = [d EXCEPT !.pc = "abort"]
               ELSE /\ pf' = IF loc.lastPage < 0
                             THEN WritePage(r.f, r.page, SP_InitPage)
                             ELSE r.f
                    /\ loc' = IF loc.lastPage < 0
                              THEN [loc EXCEPT !.pageNum = r.page,
                                               !.lastPage = r.page,
                                               !.pageCount = @ + 1]
                              ELSE [loc EXCEPT !.pageNum = r.page]
                    /\ drv' = [d EXCEPT !.pc = "ins_try"]
    /\ UNCHANGED idleVars

\* mutant of LdInsTry: the full page is not released
LdInsTry_KeepPinned ==
    /\ drv.prog = "student_store" /\ drv.pc = "ins_try"
    /\ \E r \in {SP_InsertRecord(PageOf(pf, loc.pageNum),
                                DataOf(loc.i + 1, loc.len), loc.len)} :
       \E u \in {IF r.rc = SP_OK
                 THEN PF_UnfixPage(WritePage(pf, loc.pageNum, r.page),
                                   PFstats, loc.pageNum, TRUE)
                 ELSE [f |-> pf, st |-> PFstats, rc |-> "PFE_OK",
                       page |-> loc.pageNum]} :
        /\ pf' = u.f
        /\ PFstats' = u.st
        /\ drv' = [drv EXCEPT !.pc = IF r.rc = SP_OK THEN "line"
                                     ELSE "ins_alloc"]
        /\ loc' = IF r.rc = SP_OK
                  THEN [loc EXCEPT !.recordCount = @ + 1,
                                   !.totalRecords = @ + 1,
                                   !.totalBytes = @ + loc.len,
                                   !.i = @ + 1]
                  ELSE loc
    /\ UNCHANGED idleVars

\* SP_InsertRecord into the fetched page: on success the page is released
\* dirty and main counts the record; otherwise the page is released clean
\* and a new page is tried
LdInsTry ==
    /\ drv.prog = "student_store" /\ drv.pc = "ins_try"
    /\ \E r \in {SP_InsertRecord(PageOf(pf, loc.pageNum),
                                DataOf(loc.i + 1, loc.len), loc.len)} :
       \E u \in {PF_UnfixPage(WritePage(pf, loc.pageNum, r.page), PFstats,
                             loc.pageNum, r.rc = SP_OK)} :
        /\ pf' = u.f
        /\ PFstats' = u.st
        /\ drv' = [Issue(drv, "PF_UnfixPage", loc.pageNum, u.rc)
                      EXCEPT !.pc = IF r.rc = SP_OK THEN "line"
                                    ELSE "ins_alloc"]
        /\ loc' = IF r.rc = SP_OK
                  THEN [loc EXCEPT !.recordCount = @ + 1,
                                   !.totalRecords = @ + 1,
                                   !.totalBytes = @ + loc.len,
                                   !.i = @ + 1]
                  ELSE loc
    /\ UNCHANGED idleVars

\* page full: PF_AllocPage and SP_InitPage of a new page
LdInsAlloc ==
    /\ drv.prog = "student_store" /\ drv.pc = "ins_alloc"
    /\ \E r \in Outcomes(drv, PF_AllocPage(pf, PFstats), pf, PFstats) :
        LET d == Issue(drv, "PF_AllocPage", r.page, r.rc)
        IN  /\ PFstats' = r.st
            /\ pf' = IF r.rc = "PFE_OK"
                     THEN WritePage(r.f, r.page, SP_InitPage) ELSE r.f
            /\ loc' = IF r.rc = "PFE_OK"
                      THEN [loc EXCEPT !.pageNum = r.page] ELSE loc
            /\ drv' = [d EXCEPT !.pc = IF r.rc = "PFE_OK" THEN "ins_retry"
                                       ELSE "abort"]
    /\ UNCHANGED idleVars

\* the retried SP_InsertRecord on the new page: released clean and the
\* error returned when it fails, else the store moves on to the new page
LdInsRetry ==
    /\ drv.prog = "student_store" /\ drv.pc = "ins_retry"
    /\ \E r \in {SP_InsertRecord(PageOf(pf, loc.pageNum),
                                DataOf(loc.i + 1, loc.len), loc.len)} :
       \E u \in {PF_UnfixPage(WritePage(pf, loc.pageNum, r.page), PFstats,
                             loc.pageNum, r.rc = SP_OK)} :
        /\ pf' = u.f
        /\ PFstats' = u.st
        /\ drv' = [Issue(drv, "PF_UnfixPage", loc.pageNum, u.rc)
                      EXCEPT !.pc = IF r.rc = SP_OK THEN "line"
                                    ELSE "abort"]
        /\ loc' = IF r.rc = SP_OK
                  THEN [loc EXCEPT !.pageCount = @ + 1,
                                   !.lastPage = loc.pageNum,
                                   !.recordCount = @ + 1,
                                   !.totalRecords = @ + 1,
                                   !.totalBytes = @ + loc.len,
                                   !.i = @ + 1,
                                   !.retried = TRUE, !.retryRc = r.rc]
                  ELSE [loc EXCEPT !.retried = TRUE, !.retryRc = r.rc]
    /\ UNCHANGED idleVars

\* the page iteration of computeUsage, deleteEvery and scanCount:
\* PF_GetFirstPage, then PF_GetNextPage; any result but OK ends the pass
LdPassFetch ==
    /\ drv.prog = "student_store" /\ drv.pc = "fetch"
    /\ \E r \in Outcomes(drv, IF loc.first THEN PF_GetFirstPage(pf, PFstats)
                              ELSE PF_GetNextPage(pf, PFstats, loc.pageNum),
                         pf, PFstats) :
        LET d == Issue(drv, IF loc.first THEN "PF_GetFirstPage"
                            ELSE "PF_GetNextPage", r.page, r.rc)
            e == EndPass(loc, r.rc)
        IN  /\ pf' = r.f
            /\ PFstats' = r.st
            /\ IF r.rc = "PFE_OK"
               THEN /\ drv' = [d EXCEPT !.pc = "visit"]
                    /\ loc' = [loc EXCEPT !.pageNum = r.page]
               ELSE /\ drv' = [d EXCEPT !.pc = e.pc]
                    /\ loc' = e.loc
    /\ UNCHANGED idleVars

\* the loop body of the pass on the fetched page and its PF_UnfixPage,
\* dirty only when deleteEvery deleted a record of the page
LdPassVisit ==
    /\ drv.prog = "student_store" /\ drv.pc = "visit"
    /\ \E del \in {IF loc.pass = "delete"
                   THEN DeleteEveryPage(PageOf(pf, loc.pageNum), -1,
                                        loc.counter, loc.deleted, FALSE,
                                        loc.deleteStep)
                   ELSE [page |-> PageOf(pf, loc.pageNum),
                         counter |-> loc.counter, deleted |-> loc.deleted,
                         dirty |-> FALSE]} :
       \E u \in {PF_UnfixPage(WritePage(pf, loc.pageNum, del.page), PFstats,
                             loc.pageNum, del.dirty)} :
        /\ pf' = u.f
        /\ PFstats' = u.st
        /\ drv' = [Issue(drv, "PF_UnfixPage", loc.pageNum, u.rc)
                      EXCEPT !.pc = "fetch"]
        /\ loc' = [loc EXCEPT
                     !.first = FALSE,
                     !.counter = del.counter,
                     !.deleted = del.deleted,
                     !.count = IF loc.pass = "scan"
                               THEN ScanCountPage(PageOf(pf, loc.pageNum),
                                                  -1, @)
                               ELSE @,
                     !.totalPages = IF loc.pass \in {"usage0", "usage"}
                                    THEN @ + 1 ELSE @,
                     !.totalPayload =
                         IF loc.pass \in {"usage0", "usage"}
                         THEN @ + SP_PageUsedBytes(PageOf(pf, loc.pageNum))
                         ELSE @]
    /\ UNCHANGED idleVars

\* writeMetrics: a failure is only reported on stderr
LdMetrics ==
    /\ drv.prog = "student_store" /\ drv.pc = "metrics"
    /\ \E rc \in Rcs(drv) :
        drv' = [Issue(drv, "writeMetrics", -1, rc) EXCEPT !.pc = "close"]
    /\ UNCHANGED <<idleVars, PFstats, pf, loc>>

\* the summary, closeStore, return 0
LdClose ==
    /\ drv.prog = "student_store" /\ drv.pc = "close"
    /\ \E r \in {PF_CloseFile(pf, PFstats)} :
        /\ pf' = r.f
        /\ drv' = Exit(Issue(drv, "PF_CloseFile", -1, r.rc), 0)
    /\ UNCHANGED <<idleVars, PFstats, loc>>

\* the error paths of main: closeStore, return 1
LdAbort ==
    /\ drv.prog = "student_store" /\ drv.pc = "abort"
    /\ \E r \in {PF_CloseFile(pf, PFstats)} :
        /\ pf' = r.f
        /\ drv' = Exit(Issue(drv, "PF_CloseFile", -1, r.rc), 1)
    /\ UNCHANGED <<idleVars, PFstats, loc>>

NextLoader ==
    \/ LdCreate
    \/ LdOpen
    \/ LdFopen
    \/ LdLine
    \/ LdInsFetch
    \/ LdInsTry
    \/ LdInsAlloc
    \/ LdInsRetry
    \/ LdPassFetch
    \/ LdPassVisit
    \/ LdMetrics
    \/ LdClose
    \/ LdAbort

SpecLoader == InitLoader /\ [][NextLoader]_vars

\* the value of an expression, computed once: the element of a singleton
Only(S) == CHOOSE x \in S : TRUE

\* insertRecord from the new page on: pg is the initialized page b.page;
\* it is released clean and the error returned when the retry fails, else
\* the store moves on to the new page
InsertOnNewPage(b, pg, l, data, len) ==
    Only({LET u == PF_UnfixPage(WritePage(b.f, b.page, r.page), b.st,
                                b.page, r.rc = SP_OK)
          IN  IF r.rc = SP_OK
              THEN [f |-> u.f, st |-> u.st, rc |-> SP_OK,
                    l |-> [l EXCEPT !.pageNum = b.page, !.pageCount = @ + 1,
                                    !.lastPage = b.page,
                                    !.recordCount = @ + 1,
                                    !.retried = TRUE, !.retryRc = r.rc]]
              ELSE [f |-> u.f, st |-> u.st, rc |-> r.rc,
                    l |-> [l EXCEPT !.pageNum = b.page, !.retried = TRUE,
                                    !.retryRc = r.rc]]
          : r \in {SP_InsertRecord(pg, data, len)}})

\* insertRecord from the fetched page a.page on, pg its content: on
\* success the page is released dirty, otherwise it is released clean and
\* a new page is allocated and initialized
InsertOnPage(a, pg, l, data, len) ==
    Only({LET u == PF_UnfixPage(WritePage(a.f, a.page, r.page), a.st,
                                a.page, r.rc = SP_OK)
          IN  IF r.rc = SP_OK
              THEN [f |-> u.f, st |-> u.st, rc |-> SP_OK,
                    l |-> [l EXCEPT !.recordCount = @ + 1]]
              ELSE Only({InsertOnNewPage(
                             [b EXCEPT !.f = WritePage(b.f, b.page,
                                                       SP_InitPage)],
                             SP_InitPage, l, data, len)
                         : b \in {PF_AllocPage(u.f, u.st)}})
          : r \in {SP_InsertRecord(pg, data, len)}})

\* insertRecord as one call in a run where no PF call fails: PF_AllocPage
\* and SP_InitPage when the store has no page yet, PF_GetThisPage of the
\* last page otherwise, then the insertion
insertRecord(f, st, l, data, len) ==
    Only({IF l.lastPage < 0
          THEN InsertOnPage([a EXCEPT !.f = WritePage(a.f, a.page,
                                                      SP_InitPage)],
                            SP_InitPage,
                            [l EXCEPT !.pageNum = a.page,
                                      !.lastPage = a.page,
                                      !.pageCount = @ + 1],
                            data, len)
          ELSE InsertOnPage(a, pg, [l EXCEPT !.pageNum = a.page], data, len)
          : a \in {IF l.lastPage < 0 THEN PF_AllocPage(f, st)
                   ELSE PF_GetThisPage(f, st, l.lastPage)},
            pg \in {IF l.lastPage < 0 THEN SP_InitPage
                    ELSE PageOf(f, l.lastPage)}})

\* one iteration of main's load loop: the next line, insertRecord, and the
\* totals; a is the file, the statistics, the locals and the last result
LoadLine(a) ==
    LET len == Only(LineLens(a.l))
    IN  Only({IF r.rc # SP_OK THEN [r EXCEPT !.l.len = len]
              ELSE [r EXCEPT !.l.len = len, !.l.totalRecords = @ + 1,
                             !.l.totalBytes = @ + len, !.l.i = @ + 1]
              : r \in {insertRecord(a.f, a.st, a.l,
                                    DataOf(a.l.i + 1, len), len)}})

\* n iterations of the load loop, stopping at the first failed insertion
\* (the loop is split in halves, each evaluated before the next starts, to
\* bound the depth of the evaluation)
RECURSIVE LoadLines(_, _)
LoadLines(a, n) ==
    IF n = 0 \/ a.rc # SP_OK THEN a
    ELSE IF n = 1 THEN LoadLine(a)
    ELSE Only({LoadLines(h, n - (n \div 2)) : h \in {LoadLines(a, n \div 2)}})

\* one iteration of the page loop of a pass: the page is fetched, visited
\* and released, dirty only when deleteEvery deleted a record of it
PassPage(a) ==
    LET g == IF a.l.first THEN PF_GetFirstPage(a.f, a.st)
             ELSE PF_GetNextPage(a.f, a.st, a.l.pageNum)
        pg == PageOf(g.f, g.page)
        del == IF a.l.pass = "delete"
               THEN DeleteEveryPage(pg, -1, a.l.counter, a.l.deleted, FALSE,
                                    a.l.deleteStep)
               ELSE [page |-> pg, counter |-> a.l.counter,
                     deleted |-> a.l.deleted, dirty |-> FALSE]
        u == PF_UnfixPage(WritePage(g.f, g.page, del.page), g.st, g.page,
                          del.dirty)
    IN  [f |-> u.f, st |-> u.st, rc |-> SP_OK,
         l |-> [a.l EXCEPT
                  !.pageNum = g.page,
                  !.first = FALSE,
                  !.counter = del.counter,
                  !.deleted = del.deleted,
                  !.count = IF a.l.pass = "scan"
                            THEN ScanCountPage(pg, -1, @) ELSE @,
                  !.totalPages = IF a.l.pass \in {"usage0", "usage"}
                                 THEN @ + 1 ELSE @,
                  !.totalPayload = IF a.l.pass \in {"usage0", "usage"}
                                   THEN @ + SP_PageUsedBytes(pg) ELSE @]]

\* n iterations of the page loop of a pass (split in halves as LoadLines)
RECURSIVE PassPages(_, _)
PassPages(a, n) ==
    IF n = 0 THEN a
    ELSE IF n = 1 THEN PassPage(a)
    ELSE Only({PassPages(h, n - (n \div 2)) : h \in {PassPages(a, n \div 2)}})

\* main's whole load loop over the data file of the scenario, then the
\* start of the first computeUsage; a failed insertion ends main instead
ScLoad ==
    /\ drv.prog = "student_store" /\ drv.pc = "line"
    /\ loc.input = "scenario"
    /\ \E a \in {LoadLines([f |-> pf, st |-> PFstats, rc |-> SP_OK,
                           l |-> loc], MaxLines(loc) - loc.i)} :
        /\ pf' = a.f
        /\ PFstats' = a.st
        /\ loc' = IF a.rc = SP_OK THEN StartPass(a.l, "usage0") ELSE a.l
        /\ drv' = [drv EXCEPT !.pc = IF a.rc = SP_OK THEN "fetch"
                                     ELSE "abort"]
    /\ UNCHANGED idleVars

\* one whole pass of the scenario (computeUsage, deleteEvery or scanCount):
\* every page in order, then the fetch that reports the end of the file
ScPass ==
    /\ drv.prog = "student_store" /\ drv.pc = "fetch"
    /\ loc.input = "scenario" /\ loc.first
    /\ \E a \in {PassPages([f |-> pf, st |-> PFstats, rc |-> SP_OK,
                           l |-> loc], pf.numPages)} :
       \E g \in {IF a.l.first THEN PF_GetFirstPage(a.f, a.st)
                 ELSE PF_GetNextPage(a.f, a.st, a.l.pageNum)} :
        /\ pf' = g.f
        /\ PFstats' = g.st
        /\ loc' = EndPass(a.l, g.rc).loc
        /\ drv' = [drv EXCEPT !.pc = EndPass(a.l, g.rc).pc]
    /\ UNCHANGED idleVars

\* the scenario run, one step per handler: no call fails, so main never
\* takes an error path
NextLoad1000 ==
    \/ LdCreate
    \/ LdOpen
    \/ LdFopen
    \/ ScLoad
    \/ ScPass
    \/ LdMetrics
    \/ LdClose

SpecLoad1000 == InitLoad1000 /\ [][NextLoad1000]_vars

SpecBigLoader == InitBigLoader /\ [][NextLoader]_vars

\* ------------------------------ the index comparator (index_benchmark)
\* (the access method, AM_*, is an external collaborator: a call of it
\* returns a result and leaves no page pinned; its page traffic is not
\* modelled)

\* "post", "incremental", "bulk": the three orderings main runs in turn
Methods == <<"post", "incremental", "bulk">>

\* the locals of main after the dataset was read and the queries sampled;
\* phaseRc is the result of the last buildIndex / runQueries call and csv
\* the rows of the metrics file
IndexLocals(recordCount, queryCount) ==
    [i |-> 0, recordCount |-> recordCount, queryCount |-> queryCount,
     method |-> 1, phase |-> "build", rowIdx |-> 0, rows |-> << >>,
     stats |-> PFStatsReset, phaseRc |-> 0, csv |-> << >>]

InitIndex ==
    /\ CodecInit(SmallPageSize)
    /\ PFstats = PFStatsReset
    /\ pf = NoFile
    /\ pool = NoPool
    /\ drv = [NoRun EXCEPT !.prog = "index_benchmark", !.pc = "create"]
    /\ \E recordCount \in 1..MaxKeys, queryCount \in 1..MaxQueries :
           loc = IndexLocals(recordCount, queryCount)

\* buildIndex: PF_DestroyFile, AM_CreateIndex; return -1 when it fails,
\* on which main jumps to cleanup
IxCreate ==
    /\ drv.prog = "index_benchmark" /\ drv.pc = "create"
    /\ \E rc \in Rcs(drv) :
        /\ drv' = [Issue(drv, "AM_CreateIndex", -1, rc)
                      EXCEPT !.pc = IF rc = "PFE_OK" THEN "open"
                                    ELSE "cleanup"]
        /\ loc' = [loc EXCEPT !.phaseRc = IF rc = "PFE_OK" THEN 0 ELSE -1]
    /\ pf' = NoFile
    /\ UNCHANGED <<idleVars, PFstats>>

\* buildIndex / runQueries: PF_OpenFile; return -1 when it fails, else
\* PF_SetFilePolicy, PF_ResetStats and the start of the timed loop
IxOpen ==
    /\ drv.prog = "index_benchmark" /\ drv.pc = "open"
    /\ \E r \in Outcomes(drv, PF_OpenFile(pf, PFstats), pf, PFstats) :
        /\ pf' = r.f
        /\ PFstats' = IF r.rc = "PFE_OK" THEN PFStatsReset ELSE PFstats
        /\ drv' = [Issue(drv, "PF_OpenFile", -1, r.rc)
                      EXCEPT !.pc = IF r.rc # "PFE_OK" THEN "cleanup"
                                    ELSE IF loc.phase = "build" THEN "insert"
                                    ELSE "openscan"]
        /\ loc' = [loc EXCEPT !.i = 0,
                              !.phaseRc = IF r.rc = "PFE_OK" THEN 0 ELSE -1]
    /\ UNCHANGED idleVars

\* one AM_InsertEntry of the build loop
IxInsert ==
    /\ drv.prog = "index_benchmark" /\ drv.pc = "insert"
    /\ \E rc \in Rcs(drv) :
        drv' = [Issue(drv, "AM_InsertEntry", -1, rc)
                   EXCEPT !.pc = IF rc # "PFE_OK" THEN "failclose"
                                 ELSE IF loc.i + 1 < loc.recordCount
                                 THEN "insert" ELSE "stats"]
    /\ loc' = [loc EXCEPT !.i = @ + 1]
    /\ UNCHANGED <<idleVars, PFstats, pf>>

\* one AM_OpenIndexScan of the query loop
IxOpenScan ==
    /\ drv.prog = "index_benchmark" /\ drv.pc = "openscan"
    /\ \E rc \in Rcs(drv) :
        drv' = [Issue(drv, "AM_OpenIndexScan", -1, rc)
                   EXCEPT !.pc = IF rc # "PFE_OK" THEN "failclose"
                                 ELSE "find"]
    /\ UNCHANGED <<idleVars, PFstats, pf, loc>>

\* AM_FindNextEntry: a negative result (key not found, or an error) is
\* only reported
IxFind ==
    /\ drv.prog = "index_benchmark" /\ drv.pc = "find"
    /\ \E rc \in Rcs(drv) \cup {"PFE_EOF"} :
        drv' = [Issue(drv, "AM_FindNextEntry", -1, rc)
                   EXCEPT !.pc = "closescan"]
    /\ UNCHANGED <<idleVars, PFstats, pf, loc>>

\* AM_CloseIndexScan and the loop increment
IxCloseScan ==
    /\ drv.prog = "index_benchmark" /\ drv.pc = "closescan"
    /\ drv' = [Issue(drv, "AM_CloseIndexScan", -1, "PFE_OK")
                  EXCEPT !.pc = IF loc.i + 1 < loc.queryCount
                                THEN "openscan" ELSE "stats"]
    /\ loc' = [loc EXCEPT !.i = @ + 1]
    /\ UNCHANGED <<idleVars, PFstats, pf>>

\* mutant of IxFailClose: main goes on to writeMetrics with the rows it
\* has
IxFailClose_ThenMetrics ==
    /\ drv.prog = "index_benchmark" /\ drv.pc = "failclose"
    /\ \E r \in {PF_CloseFile(pf, PFstats)} :
        /\ pf' = r.f
        /\ drv' = [Issue(drv, "PF_CloseFile", -1, r.rc)
                      EXCEPT !.pc = "metrics"]
    /\ loc' = [loc EXCEPT !.phaseRc = -1]
    /\ UNCHANGED <<idleVars, PFstats>>

\* the error path of both loops: PF_CloseFile, return -1, on which main
\* jumps to cleanup
IxFailClose ==
    /\ drv.prog = "index_benchmark" /\ drv.pc = "failclose"
    /\ \E r \in {PF_CloseFile(pf, PFstats)} :
        /\ pf' = r.f
        /\ drv' = [Issue(drv, "PF_CloseFile", -1, r.rc)
                      EXCEPT !.pc = "cleanup"]
    /\ loc' = [loc EXCEPT !.phaseRc = -1]
    /\ UNCHANGED <<idleVars, PFstats>>

\* PF_GetStats(&row->stats) after the timed loop
IxStats ==
    /\ drv.prog = "index_benchmark" /\ drv.pc = "stats"
    /\ loc' = [loc EXCEPT !.stats = PFStatsGet(PFstats)]
    /\ drv' = [Snapshot(drv) EXCEPT !.pc = "close"]
    /\ UNCHANGED <<idleVars, PFstats, pf>>

\* PF_CloseFile and return 0; main labels the row and goes on with the
\* queries of this method, the build of the next one, or writeMetrics
IxClose ==
    /\ drv.prog = "index_benchmark" /\ drv.pc = "close"
    /\ \E r \in {PF_CloseFile(pf, PFstats)} :
        /\ pf' = r.f
        /\ drv' = [Issue(drv, "PF_CloseFile", -1, r.rc)
                      EXCEPT !.pc = IF loc.phase = "build" THEN "open"
                                    ELSE IF loc.method < Len(Methods)
                                    THEN "create" ELSE "metrics"]
    /\ loc' = [loc EXCEPT
                 !.rows = Append(@, <<Methods[loc.method], loc.phase>>),
                 !.rowIdx = @ + 1,
                 !.phase = IF loc.phase = "build" THEN "query" ELSE "build",
                 !.method = IF loc.phase = "query" /\ @ < Len(Methods)
                            THEN @ + 1 ELSE @]
    /\ UNCHANGED <<idleVars, PFstats>>

\* writeMetrics(metricsPath,rows,rowIdx): the header and one line per
\* row when the file can be opened; a failure is only reported on stderr
IxMetrics ==
    /\ drv.prog = "index_benchmark" /\ drv.pc = "metrics"
    /\ \E rc \in Rcs(drv) :
        /\ drv' = [Issue(drv, "writeMetrics", -1, rc)
                      EXCEPT !.pc = "cleanup"]
        /\ loc' = [loc EXCEPT !.csv = IF rc = "PFE_OK"
                                      THEN SubSeq(loc.rows, 1, loc.rowIdx)
                                      ELSE @]
    /\ UNCHANGED <<idleVars, PFstats, pf>>

\* cleanup: the frees and return 0
IxCleanup ==
    /\ drv.prog = "index_benchmark" /\ drv.pc = "cleanup"
    /\ drv' = Exit(drv, 0)
    /\ UNCHANGED <<idleVars, PFstats, pf, loc>>

NextIndex ==
    \/ IxCreate
    \/ IxOpen
    \/ IxInsert
    \/ IxOpenScan
    \/ IxFind
    \/ IxCloseScan
    \/ IxFailClose
    \/ IxStats
    \/ IxClose
    \/ IxMetrics
    \/ IxCleanup

SpecIndex == InitIndex /\ [][NextIndex]_vars

\* --------------------- the orderings of the index comparator (main)

\* the datasets loadRecords returns: 1..MaxOrderRecs records, roll
\* numbers in 1..MaxRoll, recId = position in the file
Datasets ==
    UNION {[1..n -> 1..MaxRoll] : n \in 1..MaxOrderRecs}

\* the locals of main after loadRecords; built and asked are monitors:
\* the arrays handed to buildIndex and to runQueries, method by method
OrderLocals(rolls, queryCount) ==
    [records |-> [k \in 1..Len(rolls) |-> [roll |-> rolls[k], recId |-> k]],
     recordCount |-> Len(rolls), queryCount |-> queryCount,
     recordsPost |-> << >>, recordsInc |-> << >>, recordsBulk |-> << >>,
     queries |-> << >>, i |-> 0, built |-> << >>, asked |-> << >>]

InitOrder ==
    /\ CodecInit(SmallPageSize)
    /\ PFstats = PFStatsReset
    /\ pf = NoFile
    /\ pool = NoPool
    /\ drv = [NoRun EXCEPT !.prog = "index_benchmark", !.pc = "copy"]
    /\ \E rolls \in Datasets, queryCount \in 1..MaxQueries :
        loc = OrderLocals(rolls, queryCount)

\* the three copyRecords calls, and the loop head of shuffleRecords
OrdCopy ==
    /\ drv.prog = "index_benchmark" /\ drv.pc = "copy"
    /\ loc' = [loc EXCEPT !.recordsPost = loc.records,
                          !.recordsInc = loc.records,
                          !.recordsBulk = loc.records,
                          !.i = loc.recordCount - 1]
    /\ drv' = [drv EXCEPT !.pc = "shuffle"]
    /\ UNCHANGED <<idleVars, PFstats, pf>>

\* mutant of SwapRecords: records[j] is overwritten, records[i] is kept
SwapRecords_Copy(records, i, j) ==
    [records EXCEPT ![j + 1] = records[i + 1]]

\* tmp = records[i]; records[i] = records[j]; records[j] = tmp
\* (i and j are the 0-based indices of the code)
SwapRecords(records, i, j) ==
    [records EXCEPT ![i + 1] = records[j + 1], ![j + 1] = records[i + 1]]

\* one iteration of shuffleRecords: j = rand() % (i+1), the swap, i--;
\* after the loop, qsort comes next
OrdShuffle ==
    /\ drv.prog = "index_benchmark" /\ drv.pc = "shuffle"
    /\ IF loc.i > 0
       THEN /\ \E j \in 0..loc.i :
                 loc' = [loc EXCEPT
                           !.recordsInc = SwapRecords(@, loc.i, j),
                           !.i = @ - 1]
            /\ drv' = drv
       ELSE /\ loc' = loc
            /\ drv' = [drv EXCEPT !.pc = "sort"]
    /\ UNCHANGED <<idleVars, PFstats, pf>>

\* compareRecord: by roll number only
compareRecord(ra, rb) ==
    IF ra.roll < rb.roll THEN -1 ELSE IF ra.roll > rb.roll THEN 1 ELSE 0

\* the arrays qsort may leave: the elements rearranged so that no element
\* compares greater than its successor (the order of equal elements is
\* unspecified)
Sorted(records) ==
    {[k \in 1..Len(records) |-> records[p[k]]] :
        p \in {q \in [1..Len(records) -> 1..Len(records)] :
                  /\ \A a, b \in 1..Len(records) : q[a] = q[b] => a = b
                  /\ \A k \in 1..(Len(records) - 1) :
                        compareRecord(records[q[k]], records[q[k + 1]]) <= 0}}

\* qsort(recordsBulk,recordCount,sizeof(RecordKey),compareRecord)
OrdSort ==
    /\ drv.prog = "index_benchmark" /\ drv.pc = "sort"
    /\ \E sorted \in Sorted(loc.recordsBulk) :
        loc' = [loc EXCEPT !.recordsBulk = sorted, !.i = 0]
    /\ drv' = [drv EXCEPT !.pc = "select"]
    /\ UNCHANGED <<idleVars, PFstats, pf>>

\* one iteration of selectQueries: idx = rand() % count,
\* keys[i] = records[idx].roll
OrdSelect ==
    /\ drv.prog = "index_benchmark" /\ drv.pc = "select"
    /\ IF loc.i < loc.queryCount
       THEN /\ \E idx \in 0..(loc.recordCount - 1) :
                 loc' = [loc EXCEPT
                           !.queries = Append(@, loc.records[idx + 1].roll),
                           !.i = @ + 1]
            /\ drv' = drv
       ELSE /\ loc' = loc
            /\ drv' = [drv EXCEPT !.pc = "run"]
    /\ UNCHANGED <<idleVars, PFstats, pf>>

\* main hands an ordering to buildIndex and the queries to runQueries:
\* recordsPost, then recordsInc, then recordsBulk
OrdRun ==
    /\ drv.prog = "index_benchmark" /\ drv.pc = "run"
    /\ loc' = [loc EXCEPT
                 !.built = Append(@, CASE Len(loc.built) = 0 -> loc.recordsPost
                                       [] Len(loc.built) = 1 -> loc.recordsInc
                                       [] OTHER -> loc.recordsBulk),
                 !.asked = Append(@, loc.queries)]
    /\ drv' = [drv EXCEPT !.pc = IF Len(loc.built) + 1 < Len(Methods)
                                 THEN "run" ELSE "ran"]
    /\ UNCHANGED <<idleVars, PFstats, pf>>

NextOrder ==
    \/ OrdCopy
    \/ OrdShuffle
    \/ OrdSort
    \/ OrdSelect
    \/ OrdRun

SpecOrder == InitOrder /\ [][NextOrder]_vars

\* ------------------------------------------------- the three harnesses

InitHarness == InitMixed \/ InitLoader \/ InitIndex

NextHarness ==
    \/ NextMixed
    \/ NextLoader
    \/ NextIndex

SpecHarness == InitHarness /\ [][NextHarness]_vars

\* ------------------------------------------------------------ the claims

\* the byte range [offset, offset+length) of live slot i
Range(pg, i) == pg.slot[i].offset .. (pg.slot[i].offset + pg.slot[i].length - 1)

\* the slot ids whose record an insert stored and no delete removed since
Stored == {id \in DOMAIN expected : expected[id] # NoData}

\* C1: round trip. SP_GetRecord on every slot id a successful
\* SP_InsertRecord returned (and no delete removed since) yields exactly the
\* length and the bytes passed to that insert.
C1_RoundTrip ==
    \A id \in Stored :
        LET g == SP_GetRecord(page, id)
        IN  /\ g.rc = SP_OK
            /\ g.length = Len(expected[id])
            /\ BytesAt(page, g.offset, g.length) = expected[id]

\* three inserts in a row succeeded on a fresh page, no delete was made
C1_Witness ==
    /\ nops = 3
    /\ Cardinality(Stored) = 3
    /\ last.op = "insert"
    /\ last.rc = SP_OK

\* C2: the byte ranges of the live slots are pairwise disjoint and lie
\* entirely within [freePtr, pageSize).
C2_LiveDisjointInHeap ==
    /\ \A i \in LiveSlots(page) :
          /\ page.freePtr <= page.slot[i].offset
          /\ page.slot[i].offset + page.slot[i].length <= PF_PAGE_SIZE
    /\ \A i, j \in LiveSlots(page) :
          i # j => Range(page, i) \cap Range(page, j) = {}

\* an insert that compacted left at least two live records
C2_Witness ==
    /\ last.op = "insert"
    /\ last.compacted
    /\ last.rc = SP_OK
    /\ Cardinality(LiveSlots(page)) >= 2

\* C3: headerSize + slotCount * slotSize <= freePtr in every reachable
\* state, and also inside every insert call that can be made from it, between
\* the copy of the record and the reservation of the slot.
C3_DirBelowHeap ==
    /\ HeaderSize + page.slotCount * SlotSize <= page.freePtr
    /\ \A length \in (-1)..(PF_PAGE_SIZE - HeaderSize) :
          LET r == SP_InsertRecord(page, DataOf(nops + 1, length), length)
          IN  HeaderSize + r.mid.slotCount * SlotSize <= r.mid.freePtr

\* the directory and the heap touch: no free byte is left
C3_Witness ==
    /\ last.op = "insert"
    /\ last.rc = SP_OK
    /\ HeaderSize + page.slotCount * SlotSize = page.freePtr
    /\ page.slotCount >= 2

\* the chain of tombstones from slot id head, following the offset fields;
\* BadLink marks a link that leaves the directory or a walk that does not end
BadLink == SP_INVALID_SLOT - 1

RECURSIVE ChainWalk(_, _, _)
ChainWalk(pg, head, fuel) ==
    IF head = SP_INVALID_SLOT THEN << >>
    ELSE IF fuel = 0 \/ head < 0 \/ head >= pg.slotCount THEN <<BadLink>>
    ELSE <<head>> \o ChainWalk(pg, pg.slot[head].offset, fuel - 1)

Chain(pg) == ChainWalk(pg, pg.freeListHead, pg.slotCount + 1)

\* C4: the chain from freeListHead reaches the sentinel -1 after visiting
\* only slots in [0, slotCount) with length < 0, visits no slot twice and
\* visits every tombstoned slot; compaction does not alter the chain.
C4_TombstoneChain ==
    LET c == Chain(page)
    IN  /\ \A k \in 1..Len(c) :
              /\ c[k] # BadLink
              /\ c[k] >= 0 /\ c[k] < page.slotCount
              /\ page.slot[c[k]].length < 0
        /\ \A k, m \in 1..Len(c) : k # m => c[k] # c[m]
        /\ {c[k] : k \in 1..Len(c)} =
               {i \in 0..(page.slotCount - 1) : page.slot[i].length <= 0}
        /\ Chain(SP_CompactPage(page)) = c

\* a chain of two tombstones beside a live record that compaction moves
C4_Witness ==
    /\ Len(Chain(page)) = 2
    /\ Cardinality(LiveSlots(page)) >= 1
    /\ SP_CompactPage(page).slot # page.slot

\* C5: a successful SP_InsertRecord returns the slot id that was
\* freeListHead when the chain is non-empty (slotCount unchanged, head
\* advanced to the next tombstone) and otherwise returns the old slotCount and
\* increments slotCount; after insert, delete of that slot, insert of the
\* same length, slotCount has not grown.
C5_SlotReservation ==
    [][ (last'.op = "insert" /\ nops' = nops + 1) =>
          /\ (last'.rc = SP_OK =>
                IF page.freeListHead # SP_INVALID_SLOT
                THEN /\ last'.id = page.freeListHead
                     /\ page'.slotCount = page.slotCount
                     /\ page'.freeListHead = page.slot[page.freeListHead].offset
                ELSE /\ last'.id = page.slotCount
                     /\ page'.slotCount = page.slotCount + 1
                     /\ page'.freeListHead = SP_INVALID_SLOT)
          /\ ((reuse.stage = 2 /\ last'.len = reuse.len) =>
                page'.slotCount = reuse.sc)
      ]_vars

\* insert; delete of that slot; insert of the same length: done, on a page
\* that holds another record, the second insert having compacted the page
C5_Witness ==
    /\ reuse.stage = 3
    /\ last.op = "insert"
    /\ last.rc = SP_OK
    /\ last.compacted
    /\ page.slotCount >= 2

\* the bytes a page needs to hold its directory, its live records and one
\* more record of the given length
SpaceNeeded(pg, length) ==
    HeaderSize
    + SlotSize * (pg.slotCount
                  + (IF pg.freeListHead = SP_INVALID_SLOT THEN 1 ELSE 0))
    + SP_PageUsedBytes(pg) + length

\* C6: on a reachable page SP_InsertRecord succeeds if and only if
\* length > 0 and the page can hold the record after compaction; every
\* failure is no-space; lengths <= 0 are rejected.
C6_InsertIffFits ==
    \A length \in (-1)..(PF_PAGE_SIZE - HeaderSize) :
        LET r == SP_InsertRecord(page, DataOf(nops + 1, length), length)
        IN  /\ r.rc = SP_OK <=>
                 (length > 0 /\ SpaceNeeded(page, length) <= PF_PAGE_SIZE)
            /\ r.rc # SP_OK => r.rc = SP_ERR_NOSPACE

\* an insert that fitted only after compaction, and one that was refused
\* for lack of space even after compaction
C6_Witness ==
    /\ last.op = "insert"
    /\ last.compacted
    /\ last.rc = SP_OK
    /\ \E length \in 1..MaxLen :
          /\ Compacts(page, length)
          /\ SP_InsertRecord(page, DataOf(nops + 1, length), length).rc
                 = SP_ERR_NOSPACE

\* the page holds exactly the records of the given lengths, in slots 0, 1, ...
\* and the last call was the nops-th call, an insert of the given length
Holds(lens, n, length) ==
    /\ nops = n
    /\ last.op = "insert"
    /\ last.len = length
    /\ \A k \in 1..Len(lens) :
          k - 1 \in DOMAIN expected /\ Len(expected[k - 1]) = lens[k]

\* C7 as stated: on a fresh 4096-byte page the inserts of 100, 200 and 3000
\* bytes succeed and a following insert of 500 bytes fails with no-space.
C7_Original ==
    /\ Holds(<< >>, 1, 100) => last.rc = SP_OK
    /\ Holds(<<100>>, 2, 200) => last.rc = SP_OK
    /\ Holds(<<100, 200>>, 3, 3000) => last.rc = SP_OK
    /\ Holds(<<100, 200, 3000>>, 4, 500) => last.rc = SP_ERR_NOSPACE

\* C7 as amended: on a fresh 4096-byte page the inserts of 100, 200 and 3000
\* bytes succeed (slots 0, 1, 2) and a following insert of 500 bytes
\* succeeds as well (slot 3): 776 bytes are free and 504 are needed.
C7_Scenario ==
    /\ Holds(<< >>, 1, 100) => (last.rc = SP_OK /\ last.id = 0)
    /\ Holds(<<100>>, 2, 200) => (last.rc = SP_OK /\ last.id = 1)
    /\ Holds(<<100, 200>>, 3, 3000) =>
          (last.rc = SP_OK /\ last.id = 2 /\ SP_PageFreeSpace(page) = 776)
    /\ Holds(<<100, 200, 3000>>, 4, 500) =>
          (last.rc = SP_OK /\ last.id = 3 /\ ~last.compacted)

\* the fourth call of the scenario has been made
C7_Witness ==
    /\ pageSize = ScenarioPageSize
    /\ Holds(<<100, 200, 3000>>, 4, 500)
    /\ page.slotCount = 4

\* C8: SP_CompactPage leaves slotCount, freeListHead, every tombstone entry
\* and the length and bytes of every live record unchanged; it changes only
\* live offsets and freePtr; afterwards freePtr = pageSize - (sum of live
\* lengths) and the live records are contiguous up to the page end.
C8_CompactionFrame ==
    LET c == SP_CompactPage(page)
    IN  /\ c.slotCount = page.slotCount
        /\ c.freeListHead = page.freeListHead
        /\ c.attrLength = page.attrLength
        /\ DOMAIN c.slot = DOMAIN page.slot
        /\ \A i \in DOMAIN page.slot :
              IF page.slot[i].length > 0
              THEN /\ c.slot[i].length = page.slot[i].length
                   /\ BytesAt(c, c.slot[i].offset, c.slot[i].length) =
                        BytesAt(page, page.slot[i].offset, page.slot[i].length)
              ELSE c.slot[i] = page.slot[i]
        /\ c.freePtr = PF_PAGE_SIZE - SP_PageUsedBytes(page)
        /\ UNION {Range(c, i) : i \in LiveSlots(c)} =
               c.freePtr .. (PF_PAGE_SIZE - 1)
        /\ \A i, j \in LiveSlots(c) :
              i # j => Range(c, i) \cap Range(c, j) = {}

\* a page with a tombstone on the chain on which compaction has to move two
\* live records past the hole the deleted record left
C8_Witness ==
    /\ Cardinality({i \in LiveSlots(page) :
                       SP_CompactPage(page).slot[i].offset
                           # page.slot[i].offset}) >= 2
    /\ page.freeListHead # SP_INVALID_SLOT

\* C9: SP_DeleteRecord on a live slot returns OK, sets its length to -1 and
\* makes it the chain head with its offset holding the previous head; on a
\* slot id out of range or already tombstoned it returns invalid-slot and
\* leaves the page unchanged; SP_GetRecord on a deleted slot returns
\* invalid-slot until the slot is reused.
C9_Delete ==
    /\ [](\A id \in deleted :
             SP_GetRecord(page, id).rc = SP_ERR_INVALID_SLOT)
    /\ [][ (last'.op = "delete" /\ nops' = nops + 1) =>
             IF last'.id \in LiveSlots(page)
             THEN /\ last'.rc = SP_OK
                  /\ page'.slot[last'.id] =
                        [offset |-> page.freeListHead, length |-> -1]
                  /\ page'.freeListHead = last'.id
                  /\ page' = [page EXCEPT !.slot[last'.id] =
                                             page'.slot[last'.id],
                                          !.freeListHead = last'.id]
             ELSE /\ last'.rc = SP_ERR_INVALID_SLOT
                  /\ page' = page
         ]_vars

\* a second delete of the same slot was refused, with another tombstone
\* behind it on the chain
C9_Witness ==
    /\ last.op = "delete"
    /\ last.rc = SP_ERR_INVALID_SLOT
    /\ last.id \in deleted
    /\ page.freeListHead = last.id
    /\ page.slot[last.id].offset # SP_INVALID_SLOT

\* C10: from cursor = -1, repeated SP_GetNextRecord calls return every live
\* slot exactly once in strictly ascending slot-id order, never a tombstone,
\* and then empty; also when the slot just returned is deleted between calls.
C10_ScanOrder ==
    /\ mode \in {"scan", "done"} =>
          /\ \A k \in 1..Len(returned) : returned[k] \in liveAtStart
          /\ \A k, m \in 1..Len(returned) :
                k < m => returned[k] < returned[m]
    /\ (last.op = "next" /\ last.rc = SP_OK) =>
          /\ page.slot[last.id].length > 0
          /\ last.len = page.slot[last.id].length
          /\ returned[Len(returned)] = last.id
          /\ cursor = last.id
          /\ \A i \in liveAtStart :
                i < last.id => \E k \in 1..Len(returned) : returned[k] = i
    /\ mode = "done" =>
          /\ last.op = "next" /\ last.rc = SP_ERR_EMPTY
          /\ cursor = -1
          /\ {returned[k] : k \in 1..Len(returned)} = liveAtStart

\* a scan ended after it skipped a tombstone, returned two records and had
\* the first of them deleted between the calls
C10_Witness ==
    /\ mode = "done"
    /\ Len(returned) >= 2
    /\ returned[1] \in deleted
    /\ \E i \in 0..(page.slotCount - 1) :
          i \notin liveAtStart /\ i < returned[2]

\* C11: inputCount and outputCount are aliases of the physical I/O counters:
\* in every state reached by increments and resets of the registry,
\* inputCount = physicalReads and outputCount = physicalWrites.
C11_Aliases ==
    /\ PFstats.inputCount = PFstats.physicalReads
    /\ PFstats.outputCount = PFstats.physicalWrites

\* physical reads and writes were counted, next to other counters
C11_Witness ==
    /\ PFstats.physicalReads = MaxCount
    /\ PFstats.physicalWrites > 0
    /\ PFstats.logicalReads > 0
    /\ PFstats.physicalReads # PFstats.physicalWrites

\* the mixed driver ran to its CSV row
MixDone == drv.prog = "pf_benchmark" /\ drv.exit = 0

\* C12 as stated: in the mixed driver, with one logical read per successful
\* getThisPage and one logical write per unfix with dirty = true, the
\* reported statistics after N operations satisfy
\* logicalReads + logicalWrites = N.
C12_Original ==
    MixDone =>
        loc.stats.logicalReads + loc.stats.logicalWrites = loc.operations

\* C12, amended: every operation fetches its page, so the row reports
\* logicalReads = N and logicalWrites = the number of write operations; the
\* sum is N plus the number of writes.
C12_ReadsAndWrites ==
    MixDone =>
        /\ loc.stats.logicalReads = loc.operations
        /\ loc.stats.logicalWrites = loc.writes
        /\ loc.stats.logicalReads + loc.stats.logicalWrites
               = loc.operations + loc.writes

\* a run of the 8:2 mix with reads and writes reached its CSV row
C12_Witness ==
    /\ MixDone
    /\ loc.readWeight = 8
    /\ loc.writes > 0
    /\ loc.writes < loc.operations

\* the loader's delete pass ran over all pages (its page iteration ended
\* with end-of-file)
DeletePassDone ==
    drv.prog = "student_store" /\ loc.deleteStep > 0 /\ loc.delDone

\* C13: the delete pass with step k > 0 deletes exactly the records whose
\* 1-based position in the global scan order (pages in iteration order,
\* ascending slot id, counter carried across pages) is a multiple of k;
\* with N live records before the pass it reports N \div k deletions and
\* the following scan counts N - (N \div k) live records.
C13_DeleteEvery ==
    DeletePassDone =>
        LET N == Len(loc.order)
            k == loc.deleteStep
        IN  /\ N = loc.totalRecords
            /\ LiveSet(pf) = {loc.order[j] : j \in {n \in 1..N : n % k # 0}}
            /\ loc.deletedRecords = N \div k
            /\ loc.scanDone => loc.activeRecords = N - (N \div k)

\* a pass with step 3 over four records on two pages, the third record
\* being the first of the second page, followed by the scan
C13_Witness ==
    /\ DeletePassDone
    /\ loc.scanDone
    /\ drv.exit = 0
    /\ loc.deleteStep = 3
    /\ Len(loc.order) = 4
    /\ loc.order[3] = <<1, 0>>
    /\ loc.deletedRecords = 1

\* the scenario run finished its delete pass and the scan after it
ScenarioScanned ==
    /\ drv.prog = "student_store" /\ loc.input = "scenario"
    /\ loc.totalRecords = ScenarioRecords
    /\ loc.deleteStep = ScenarioStep
    /\ loc.delDone /\ loc.scanDone

\* C14 as stated: loader with delete-step 7 over 1000 loaded records: the
\* post-deletion scan counts 857 live records.
C14_Original == ScenarioScanned => loc.activeRecords = 857

\* C14, amended: the delete pass removes 1000 \div 7 = 142 records and the
\* post-deletion scan counts 1000 - 142 = 858 live records.
C14_Scan858 ==
    ScenarioScanned =>
        /\ loc.deletedRecords = 142
        /\ loc.activeRecords = 858

\* the scenario run ended with exit status 0
C14_Witness == ScenarioScanned /\ drv.exit = 0 /\ ~drv.failed

\* C15: in the loader, when an insertion into the current page returns
\* no-space and a new page is allocated and initialized, the retried
\* insertion on that empty page succeeds for every record the loader
\* accepts (lengths 1..4095 with pageSize 4096).
C15_RetrySucceeds ==
    (drv.prog = "student_store" /\ pageSize = ScenarioPageSize
        /\ loc.retried)
        => loc.retryRc = SP_OK

\* C16: every harness exits with status 0 only when every step succeeded;
\* if any paged-file, access-method, codec or metrics-writing step fails,
\* the exit status is nonzero.
C16_ExitZeroOnlyOnSuccess == drv.exit = 0 => ~drv.failed

\* C17: harnesses treat every non-OK result other than end-of-file as
\* fatal: once a call made by a harness returned such a result, the harness
\* issues no further operation (closing the file on its way out apart).
C17_FailureIsFatal == drv.failed => drv.after = 0

\* the page-fetching calls of the PF layer
Fetches ==
    {"PF_AllocPage", "PF_GetThisPage", "PF_GetFirstPage", "PF_GetNextPage"}

\* C18: pin discipline of the mixed driver and of the loader: on every
\* path each successful PF_AllocPage / PF_GetThisPage / PF_GetFirstPage /
\* PF_GetNextPage is followed by exactly one PF_UnfixPage of that same page
\* before the next page is fetched and before PF_CloseFile; at most one
\* data page is pinned at any time and none at close or at exit.
C18_PinDiscipline ==
    drv.prog \in {"pf_benchmark", "student_store"} =>
        /\ Cardinality(pf.pinned) <= 1
        /\ (drv.call.op \in Fetches /\ drv.call.rc = "PFE_OK")
               => pf.pinned = {drv.call.page}
        /\ drv.call.op = "PF_UnfixPage"
               => /\ drv.call.pinnedBefore = {drv.call.page}
                  /\ drv.call.rc = "PFE_OK"
                  /\ pf.pinned = {}
        /\ drv.call.op # "PF_UnfixPage" => drv.call.pinnedBefore = {}
        /\ drv.call.op = "PF_CloseFile" => drv.call.rc = "PFE_OK"
        /\ drv.exit >= 0 => pf.pinned = {}

\* the loader went through the page-full path of insertRecord and later
\* left on an error path, with two pages in the file
C18_Witness ==
    /\ drv.prog = "student_store"
    /\ loc.retried
    /\ drv.failed
    /\ drv.exit = 1
    /\ drv.call.op = "PF_CloseFile"
    /\ pf.numPages >= 2

\* C19: every harness reads out the statistics it reports after it has
\* closed the file: PF_GetStats is called after PF_CloseFile.
C19_SnapshotAfterClose == drv.snapped => ~drv.snapOpen

\* the pages pinned in a list of frames
PinnedPages(frames) ==
    {frames[i].page : i \in {j \in 1..Len(frames) : frames[j].pins > 0}}

\* C20: under both LRU and MRU, after any sequence of get / alloc / unfix
\* calls, a frame with pin count > 0 is never chosen as a victim and never
\* evicted; when every frame is pinned a miss fails with buffer-exhausted
\* and leaves all frames unchanged.
C20_PinnedNeverVictim ==
    LET l == pool.last
        miss == l.op \in {"get", "alloc"} /\ FrameOf(l.before, l.page) = 0
    IN  /\ l.victim # -1 => l.victimPins = 0
        /\ PinnedPages(l.before) \subseteq
               {pool.frames[i].page : i \in 1..Len(pool.frames)}
        /\ (miss /\ Len(l.before) = PoolCapacity
                 /\ Unpinned(l.before) = {})
               => /\ l.rc = "PFE_NOBUF"
                  /\ pool.frames = l.before

\* under MRU a victim selection passed over the pinned head, and the last
\* call was a miss that found every frame pinned
C20_Witness ==
    /\ pool.policy = "MRU"
    /\ pool.skipped
    /\ pool.last.rc = "PFE_NOBUF"
    /\ Len(pool.frames) = PoolCapacity

\* both passes of the sequential scan are over
SeqScanDone == drv.prog = "seq_scan" /\ loc.pass = 3

\* the scan of six pages over three frames under MRU is over
MruScanDone ==
    /\ SeqScanDone
    /\ pool.policy = "MRU" /\ pool.capacity = 3 /\ loc.npages = 6

\* C21 as stated: with a pool of 3 frames under MRU, reading pages 0..5
\* sequentially (each unfixed before the next read) and then re-reading
\* 0..5, the second pass yields exactly 1 miss, on page 5, and 5 hits on
\* pages 0..4.
C21_Original == MruScanDone => loc.misses = {5} /\ loc.hits = 0..4

\* C21, amended: the first pass leaves pages 5, 1 and 0 resident, and the
\* second pass yields 3 hits, on pages 0, 1 and 5, and 3 misses, on pages
\* 2, 3 and 4.
C21_MruSecondPass ==
    MruScanDone => loc.misses = {2, 3, 4} /\ loc.hits = {0, 1, 5}

\* the scan of C21 ended with three physical reads in its second pass
C21_Witness ==
    MruScanDone /\ PFstats.physicalReads - loc.reads1 = 3

\* a scan of P pages over P - 1 frames is over
PathologyScanDone == SeqScanDone /\ pool.capacity = loc.npages - 1

\* C22 as stated: for a sequential scan of P pages repeated twice with
\* buffer size B = P - 1 (each page unfixed before the next fetch), under
\* LRU the second pass physically reads every one of the P pages, and
\* under MRU the second pass physically reads only one page.
C22_Original ==
    PathologyScanDone =>
        PFstats.physicalReads - loc.reads1 =
            IF pool.policy = "LRU" THEN loc.npages ELSE 1

\* C22, amended: under LRU the second pass reads every one of the P pages;
\* under MRU it reads only one page (page P - 2) when P >= 3, and both
\* pages when P = 2, where the single frame leaves no choice of victim.
C22_SecondPassReads ==
    PathologyScanDone =>
        /\ PFstats.physicalReads - loc.reads1 = Cardinality(loc.misses)
        /\ pool.policy = "LRU" => loc.misses = 0..(loc.npages - 1)
        /\ pool.policy = "MRU" =>
               loc.misses = IF loc.npages >= 3 THEN {loc.npages - 2}
                            ELSE {0, 1}

\* a scan of four pages over three frames under MRU ended with one read in
\* its second pass
C22_Witness ==
    /\ PathologyScanDone
    /\ pool.policy = "MRU" /\ loc.npages = 4
    /\ PFstats.physicalReads - loc.reads1 = 1

\* C24: pin leak detection: closing a file while one of its pages obtained
\* by get is still pinned (get(f,p); close(f) with no unfix) is reported
\* as an error by close.
C24_PinLeakReported ==
    (drv.call.op = "PF_CloseFile" /\ drv.call.pinnedBefore # {})
        => drv.call.rc # "PFE_OK"

\* a caller closed the file with a page pinned, and close failed and left
\* the file open
C24_Witness ==
    /\ drv.prog = "client"
    /\ drv.call.op = "PF_CloseFile"
    /\ drv.call.pinnedBefore # {}
    /\ drv.call.rc = "PFE_ERR"
    /\ pf.open

\* the pages resident in a list of frames
Resident(frames) == {frames[i].page : i \in 1..Len(frames)}

\* C23: sequential consistency of page contents through the pool: for any
\* sequence of get / write / unfix(dirty = true) operations under either
\* policy and any pool capacity >= 1, a later fetch of a page returns the
\* bytes of the latest write to it, whether the fetch is a buffer hit or a
\* miss after the page was evicted (including full pool turnover).
C23_LatestWrite ==
    drv.prog = "writer" =>
        /\ (pool.last.op = "get" /\ pool.last.rc = "PFE_OK")
              => pool.mem[pool.last.page] = loc.latest[pool.last.page]
        /\ \A p \in 0..(PoolPages - 1) :
              p \notin Resident(pool.frames)
                 => pool.disk[p] = loc.latest[p]

\* a get missed on a page that was written, written back on eviction and
\* replaced in the pool by other pages in every frame, and returned the
\* value written
C23_Witness ==
    /\ drv.prog = "writer"
    /\ pool.last.op = "get" /\ pool.last.rc = "PFE_OK"
    /\ pool.last.page \in loc.back
    /\ pool.last.page \notin Resident(pool.last.before)
    /\ Len(pool.last.before) = pool.capacity
    /\ pool.capacity = PoolCapacity
    /\ pool.mem[pool.last.page] = loc.latest[pool.last.page]
    /\ loc.latest[pool.last.page] # 0

\* C25: compaction idempotence: for every reachable slotted page, applying
\* SP_CompactPage twice yields the same page as applying it once (same
\* freePtr, same live offsets, same bytes in [freePtr, pageSize)).
C25_CompactIdempotent ==
    LET once  == SP_CompactPage(page)
        twice == SP_CompactPage(once)
    IN  /\ twice.freePtr = once.freePtr
        /\ \A i \in LiveSlots(once) : twice.slot[i] = once.slot[i]
        /\ \A k \in once.freePtr..(PF_PAGE_SIZE - 1) :
              twice.bytes[k] = once.bytes[k]
        /\ twice = once

\* a page with two live records of different lengths below a hole, which
\* compaction moves
C25_Witness ==
    /\ \E i, j \in LiveSlots(page) : page.slot[i].length # page.slot[j].length
    /\ SP_CompactPage(page).freePtr > page.freePtr
    /\ \E i \in LiveSlots(page) :
          SP_CompactPage(page).slot[i].offset # page.slot[i].offset

\* how many times x occurs in a sequence
Occurrences(seq, x) == Cardinality({k \in 1..Len(seq) : seq[k] = x})

\* two sequences hold the same elements, each as many times
SameMultiset(a, b) ==
    /\ Len(a) = Len(b)
    /\ \A k \in 1..Len(a) : Occurrences(a, a[k]) = Occurrences(b, a[k])

\* C26: in the index comparator the three build orderings have equal
\* length and are permutations of the same multiset of (rollNumber,
\* recordId) pairs: the shuffled ordering (Fisher-Yates) and the sorted
\* ordering contain exactly the loaded pairs, the sorted one is
\* non-decreasing by rollNumber, and the same array of Q query keys (each
\* drawn from the loaded keys) is replayed against all three indexes.
C26_Orderings ==
    (drv.prog = "index_benchmark" /\ drv.pc = "ran") =>
        /\ Len(loc.built) = 3 /\ Len(loc.asked) = 3
        /\ loc.built[1] = loc.records
        /\ \A m \in 1..3 : SameMultiset(loc.built[m], loc.records)
        /\ \A k \in 1..(loc.recordCount - 1) :
              loc.built[3][k].roll <= loc.built[3][k + 1].roll
        /\ Len(loc.queries) = loc.queryCount
        /\ \A k \in 1..loc.queryCount :
              \E r \in 1..loc.recordCount :
                  loc.queries[k] = loc.records[r].roll
        /\ \A m \in 1..3 : loc.asked[m] = loc.queries

\* the three orderings of a dataset with a repeated roll number differ
\* from one another, and the run was handed all of them
C26_Witness ==
    /\ drv.prog = "index_benchmark" /\ drv.pc = "ran"
    /\ loc.recordCount = MaxOrderRecs
    /\ loc.built[1] # loc.built[2]
    /\ loc.built[2] # loc.built[3]
    /\ loc.built[1] # loc.built[3]
    /\ \E a, b \in 1..loc.recordCount :
          a # b /\ loc.records[a].roll = loc.records[b].roll

\* the six rows of a complete run, in the order main fills them
SixRows ==
    << <<"post", "build">>, <<"post", "query">>,
       <<"incremental", "build">>, <<"incremental", "query">>,
       <<"bulk", "build">>, <<"bulk", "query">> >>

\* the index comparator has left main
IndexExited == drv.prog = "index_benchmark" /\ drv.pc = "exited"

C27_Complete ==
    /\ IndexExited
    /\ loc.phaseRc = 0 /\ loc.rowIdx = 6 /\ loc.csv = SixRows

\* C28: an SP_InsertRecord call that returns no-space on a reachable page
\* leaves slotCount, freeListHead, the set of live slot ids, every tombstone
\* entry and the length and bytes of every live record as they were; only
\* the offsets of live records and freePtr may differ. When length <= 0 the
\* page is unchanged.
C28_NoSpacePreserves ==
    \A length \in (-1)..(PF_PAGE_SIZE - HeaderSize) :
        LET r == SP_InsertRecord(page, DataOf(nops + 1, length), length)
        IN  /\ r.rc = SP_ERR_NOSPACE =>
                 /\ r.page.slotCount = page.slotCount
                 /\ r.page.freeListHead = page.freeListHead
                 /\ r.page.attrLength = page.attrLength
                 /\ DOMAIN r.page.slot = DOMAIN page.slot
                 /\ LiveSlots(r.page) = LiveSlots(page)
                 /\ \A i \in DOMAIN page.slot :
                       IF page.slot[i].length > 0
                       THEN /\ r.page.slot[i].length = page.slot[i].length
                            /\ BytesAt(r.page, r.page.slot[i].offset,
                                       r.page.slot[i].length) =
                                 BytesAt(page, page.slot[i].offset,
                                         page.slot[i].length)
                       ELSE r.page.slot[i] = page.slot[i]
            /\ length <= 0 => r.page = page /\ r.rc = SP_ERR_NOSPACE

\* a refused insert that compacted a page holding live records and a
\* tombstone, so that the refused call moved records
C28_Witness ==
    /\ last.op = "insert"
    /\ last.rc = SP_ERR_NOSPACE
    /\ last.len > 0
    /\ last.compacted
    /\ page.freeListHead # SP_INVALID_SLOT
    /\ Cardinality(LiveSlots(page)) >= 2
    /\ page.freePtr = PF_PAGE_SIZE - SP_PageUsedBytes(page)

\* the largest slotCount the page can be driven to: every slot is appended
\* while all slots hold a record of at least one byte
SlotsThatFit == (PF_PAGE_SIZE - HeaderSize) \div (SlotSize + 1)

\* a refused SP_InsertRecord never got to memcpy and header->freePtr = dest
NeverFailsAfterCopy ==
    \A length \in (-1)..(PF_PAGE_SIZE - HeaderSize) :
        LET r == SP_InsertRecord(page, DataOf(nops + 1, length), length)
        IN  r.rc # SP_OK => r.mid = page

\* C29 as stated: slotCount is strictly below SP_MAX_SLOTS in every
\* reachable state, so SP_ReserveSlot never fails after the bytes were
\* copied and freePtr lowered; no SP_InsertRecord call that returns an error
\* has modified freePtr; slotCount never decreases.
C29_Original ==
    /\ [](/\ page.slotCount < SP_MAX_SLOTS
          /\ NeverFailsAfterCopy
          /\ \A length \in (-1)..(PF_PAGE_SIZE - HeaderSize) :
                LET r == SP_InsertRecord(page, DataOf(nops + 1, length),
                                         length)
                IN  r.rc # SP_OK => r.page.freePtr = page.freePtr)
    /\ [][page'.slotCount >= page.slotCount]_vars

\* C29, amended: slotCount is strictly below SP_MAX_SLOTS in every reachable
\* state, so SP_ReserveSlot never fails after the bytes were copied and
\* freePtr lowered; an SP_InsertRecord call that returns an error has not
\* lowered freePtr, and has changed it only by compacting the page; no call
\* decreases slotCount.
C29_SlotBound ==
    /\ [](/\ page.slotCount < SP_MAX_SLOTS
          /\ NeverFailsAfterCopy
          /\ \A length \in (-1)..(PF_PAGE_SIZE - HeaderSize) :
                LET r == SP_InsertRecord(page, DataOf(nops + 1, length),
                                         length)
                IN  r.rc # SP_OK =>
                       /\ r.page.freePtr >= page.freePtr
                       /\ r.page \in {page, SP_CompactPage(page)})
    /\ [][page'.slotCount >= page.slotCount]_vars

\* the directory is as long as it can get, and the last call was an insert
\* refused after compaction had raised freePtr over a deleted record
C29_Witness ==
    /\ last.op = "insert"
    /\ last.rc = SP_ERR_NOSPACE
    /\ last.compacted
    /\ page.slotCount = SlotsThatFit
    /\ page.slotCount = SP_MAX_SLOTS - 1
    /\ page.freeListHead # SP_INVALID_SLOT
    /\ page.freePtr = PF_PAGE_SIZE - SP_PageUsedBytes(page)

\* C30: a successful SP_DeleteRecord on a reachable page leaves freePtr,
\* slotCount, SP_PageFreeSpace, every byte of the page and every other slot
\* entry unchanged; only the deleted slot's entry and freeListHead change;
\* SP_PageUsedBytes drops by the deleted record's length, and the space
\* compaction would free grows by that length.
C30_DeleteFrame ==
    \A slotId \in (-1)..page.slotCount :
        LET r   == SP_DeleteRecord(page, slotId)
            len == page.slot[slotId].length
        IN  r.rc = SP_OK =>
              /\ r.page.freePtr = page.freePtr
              /\ r.page.slotCount = page.slotCount
              /\ r.page.attrLength = page.attrLength
              /\ SP_PageFreeSpace(r.page) = SP_PageFreeSpace(page)
              /\ r.page.bytes = page.bytes
              /\ DOMAIN r.page.slot = DOMAIN page.slot
              /\ \A i \in DOMAIN page.slot :
                    i # slotId => r.page.slot[i] = page.slot[i]
              /\ r.page.slot[slotId] # page.slot[slotId]
              /\ r.page.freeListHead = slotId
              /\ SP_PageUsedBytes(r.page) = SP_PageUsedBytes(page) - len
              /\ SP_PageFreeSpace(SP_CompactPage(r.page)) =
                    SP_PageFreeSpace(SP_CompactPage(page)) + len

\* a record was just deleted from a page that holds other records, and its
\* bytes are not free space yet: compaction would free more
C30_Witness ==
    /\ last.op = "delete"
    /\ last.rc = SP_OK
    /\ LiveSlots(page) # {}
    /\ page.freeListHead = last.id
    /\ SP_PageFreeSpace(page) < SP_PageFreeSpace(SP_CompactPage(page))

====
